---------------------------- MODULE Spec2Model ----------------------------
(***************************************************************************)
(* A model of libdrgn/program.c: the mapping table (append_file_mapping,   *)
(* parse_nt_file, parse_proc_maps), the cleanup stack, the bootstrap of a  *)
(* program from a core dump or from a pid, and the teardown of a program.  *)
(*                                                                         *)
(* Specifications:                                                         *)
(*   SpecMap   entries fed one by one to a mapping table by parse_nt_file  *)
(*             or by parse_proc_maps                                       *)
(*   Spec      drgn_program_from_core_dump / drgn_program_from_pid,        *)
(*             followed by drgn_program_destroy                            *)
(*   SpecVmcore  parse_vmcoreinfo over the three sources of a vmcoreinfo   *)
(*   SpecNt      parse_nt_file over the bytes of a descriptor              *)
(*   SpecReloc   the relocation hooks on the symbols of one session        *)
(*   SpecStr     drgn_program_read_c_string, one loop iteration at a time  *)
(*   SpecFiles   open_kernel_files and open_userspace_files                *)
(*   SpecObject  drgn_program_find_object                                  *)
(*   SpecCleanup drgn_program_add_cleanup, _remove_cleanup and _deinit     *)
(*   SpecModules find_module, one list element at a time                   *)
(*                                                                         *)
(* Addresses and file offsets are small naturals: every sum the model      *)
(* computes stays far below 2^64, so no uint64_t operation wraps.          *)
(***************************************************************************)
EXTENDS Integers, Sequences, FiniteSets, TLC

VARIABLES
    \* ---- SpecMap: one mapping table under construction
    t_parser,      \* "nt_file" or "proc_maps": the function feeding the table
    t_page_size,   \* page_size word of the NT_FILE note
    t_mappings,    \* *mappings, entries 1..*num_mappings
    t_capacity,    \* *capacity
    t_steps,       \* entries fed so far
    t_status,      \* "run", "returned" (the parser returned an error), "crashed"
    t_pre,         \* the table before the last entry was fed
    t_in,          \* the last entry fed (NoEntry before the first)
    t_err,         \* what append_file_mapping returned for it
    t_written,     \* slots whose fields the last step stored to (0 is slot -1)
    t_path_freed,  \* the caller released or never allocated the entry's path
    \* ---- Spec: one bootstrap and the teardown that follows it
    entry,         \* "core": drgn_program_from_core_dump, "pid": drgn_program_from_pid
    dump,          \* the core file: e_type, program headers, filesystem magic
    maps,          \* the lines of /proc/<pid>/maps
    pc,            \* the statement the bootstrap is at
    loc,           \* the locals of drgn_program_init_core_dump / _init_pid
    prog,          \* struct drgn_program
    acq,           \* the resources acquired so far
    log,           \* releases, cleanup callbacks run and cleanups removed, in order
    out,           \* what the call returned: err and *ret
    obs,           \* what happened on the way: the step that failed, the vmcoreinfo
                   \* sources consulted, the table handed to debug-file discovery
    \* ---- SpecVmcore: one struct vmcoreinfo being filled
    vm,
    \* ---- SpecNt: one run of parse_nt_file over a descriptor
    nt,
    \* ---- SpecReloc: relocation hooks called on the symbols of one session
    rl,
    \* ---- SpecStr: one call of drgn_program_read_c_string
    cs,
    \* ---- SpecFiles: one call of open_kernel_files or open_userspace_files
    kf,
    \* ---- SpecObject: calls of drgn_program_find_object on one program
    fo,
    \* ---- SpecCleanup: a cleanup stack from drgn_program_init to _deinit
    cu,
    \* ---- SpecModules: one call of find_module
    ml

map_vars == <<t_parser, t_page_size, t_mappings, t_capacity, t_steps, t_status,
              t_pre, t_in, t_err, t_written, t_path_freed>>

boot_vars == <<entry, dump, maps, pc, loc, prog, acq, log, out, obs>>

later_vars == <<cs, kf, fo, cu, ml>>

aux_vars == <<vm, nt, rl, later_vars>>

vars == <<map_vars, boot_vars, aux_vars>>

-----------------------------------------------------------------------------
(* Bounds *)

\* entries fed to one table
MaxEntries == 3

Addrs == {0, 1, 2}
PageOffsets == {0, 1}
PageSizes == {1, 2}
PathNames == {"/bin/x", "/lib/y"}

-----------------------------------------------------------------------------
(* Mapping table *)

\* A path pointer: the string it points to and the buffer holding it
\* ("note": inside the note descriptor, "heap": a malloc'ed buffer,
\* "null": a NULL pointer).
PathPtr(name, buf) == [name |-> name, buf |-> buf]

NullPath == PathPtr("", "null")

\* struct file_mapping without the elf member, which append_file_mapping
\* does not store to.
FileMapping(start, end, file_offset, path) ==
    [start |-> start, end |-> end, file_offset |-> file_offset, path |-> path]

NoEntry == [start |-> -1, end |-> -1, file_offset |-> -1, path |-> NullPath]

\* resize_array growth of append_file_mapping
new_capacity(capacity) == IF capacity = 0 THEN 1 ELSE capacity * 2

\* A bug: contiguity is tested against the last entry's start.
append_file_mapping_merge_on_start(start, end, file_offset, path, mappings, capacity, resize_ok) ==
    LET n == Len(mappings) IN
    IF start > end THEN
        [err |-> "OTHER", mappings |-> mappings, capacity |-> capacity]
    ELSE IF start = end THEN
        [err |-> "NULL", mappings |-> mappings, capacity |-> capacity]
    ELSE IF n > 0
            /\ mappings[n].start = start
            /\ mappings[n].file_offset = file_offset
            /\ mappings[n].path.name = path.name THEN
        [err |-> "STOP",
         mappings |-> [mappings EXCEPT ![n].end = end],
         capacity |-> capacity]
    ELSE IF n >= capacity /\ ~resize_ok THEN
        [err |-> "ENOMEM", mappings |-> mappings, capacity |-> capacity]
    ELSE
        [err |-> "NULL",
         mappings |-> Append(mappings, FileMapping(start, end, file_offset, path)),
         capacity |-> IF n >= capacity THEN new_capacity(capacity) ELSE capacity]

\* A bug: a mapping that ends before it starts is stored like any other.
append_file_mapping_negative_stored(start, end, file_offset, path, mappings, capacity, resize_ok) ==
    IF start > end THEN
        [err |-> "NULL",
         mappings |-> Append(mappings, FileMapping(start, end, file_offset, path)),
         capacity |-> IF Len(mappings) >= capacity THEN new_capacity(capacity)
                      ELSE capacity]
    ELSE append_file_mapping_merge_on_start(start, end, file_offset, path,
                                            mappings, capacity, resize_ok)

\* append_file_mapping: the error returned ("NULL": a null pointer, "STOP":
\* &drgn_stop) and the table and capacity it leaves.
append_file_mapping(start, end, file_offset, path, mappings, capacity, resize_ok) ==
    LET n == Len(mappings) IN
    IF start > end THEN
        [err |-> "OTHER", mappings |-> mappings, capacity |-> capacity]
    ELSE IF start = end THEN
        [err |-> "NULL", mappings |-> mappings, capacity |-> capacity]
    ELSE IF n > 0
            /\ mappings[n].end = start
            /\ mappings[n].file_offset + (mappings[n].end - mappings[n].start)
                   = file_offset
            /\ mappings[n].path.name = path.name THEN
        [err |-> "STOP",
         mappings |-> [mappings EXCEPT ![n].end = end],
         capacity |-> capacity]
    ELSE IF n >= capacity /\ ~resize_ok THEN
        [err |-> "ENOMEM", mappings |-> mappings, capacity |-> capacity]
    ELSE
        [err |-> "NULL",
         mappings |-> Append(mappings, FileMapping(start, end, file_offset, path)),
         capacity |-> IF n >= capacity THEN new_capacity(capacity) ELSE capacity]

\* One iteration of the loop of parse_nt_file over the entry
\* (mapping_start, mapping_end, file_offset in pages, path): ret is "continue"
\* or the error returned; "UB" is the store to slot -1 of an empty table.
nt_file_entry(e, page_size, mappings, capacity, resize_ok, malloc_ok) ==
    LET r == append_file_mapping(e.start, e.end, e.file_offset * page_size,
                                 PathPtr(e.path, "note"), mappings, capacity,
                                 resize_ok)
        n == Len(r.mappings)
    IN
    IF r.err = "NULL" THEN
        IF n = 0 THEN
            [ret |-> "UB", err |-> r.err, mappings |-> r.mappings,
             capacity |-> r.capacity, written |-> {0}, path_freed |-> FALSE]
        ELSE IF malloc_ok THEN
            [ret |-> "continue", err |-> r.err,
             mappings |-> [r.mappings EXCEPT ![n].path = PathPtr(e.path, "heap")],
             capacity |-> r.capacity,
             written |-> {n}, path_freed |-> FALSE]
        ELSE
            [ret |-> "ENOMEM", err |-> r.err,
             mappings |-> [r.mappings EXCEPT ![n].path = NullPath],
             capacity |-> r.capacity,
             written |-> {n}, path_freed |-> FALSE]
    ELSE IF r.err = "STOP" THEN
        [ret |-> "continue", err |-> r.err, mappings |-> r.mappings,
         capacity |-> r.capacity, written |-> {n}, path_freed |-> TRUE]
    ELSE
        [ret |-> r.err, err |-> r.err, mappings |-> r.mappings,
         capacity |-> r.capacity, written |-> {}, path_freed |-> TRUE]

\* One iteration of the loop of parse_proc_maps over a line with a path
\* (fscanf returned 4): the path is a buffer fscanf allocated.
proc_maps_entry(e, mappings, capacity, resize_ok) ==
    LET r == append_file_mapping(e.start, e.end, e.file_offset,
                                 PathPtr(e.path, "heap"), mappings, capacity,
                                 resize_ok)
        n == Len(r.mappings)
        stored == r.err = "STOP" \/ (r.err = "NULL" /\ e.start < e.end)
    IN
    [ret |-> IF r.err \in {"NULL", "STOP"} THEN "continue" ELSE r.err,
     err |-> r.err,
     mappings |-> r.mappings,
     capacity |-> r.capacity,
     written |-> IF stored THEN {n} ELSE {},
     path_freed |-> r.err = "STOP"]

\* Nothing of the other specifications is running.
Idle == [status |-> "idle"]

LaterIdle == cs = Idle /\ kf = Idle /\ fo = Idle /\ cu = Idle /\ ml = Idle

AuxIdle == vm = Idle /\ nt = Idle /\ rl = Idle /\ LaterIdle

\* The bootstrap variables while no bootstrap is exercised.
BootIdle ==
    /\ entry = "none"
    /\ dump = <<>>
    /\ maps = <<>>
    /\ pc = "idle"
    /\ loc = <<>>
    /\ prog = <<>>
    /\ acq = {}
    /\ log = <<>>
    /\ out = <<>>
    /\ obs = <<>>

\* The entries a note or a maps file can hold.
Entries ==
    [start : Addrs, end : Addrs, file_offset : PageOffsets, path : PathNames]

MapInit ==
    /\ t_parser \in {"nt_file", "proc_maps"}
    /\ t_page_size \in PageSizes
    /\ t_parser = "proc_maps" => t_page_size = 1
    /\ t_mappings = <<>>
    /\ t_capacity = 0
    /\ t_steps = 0
    /\ t_status = "run"
    /\ t_pre = <<>>
    /\ t_in = NoEntry
    /\ t_err = "NULL"
    /\ t_written = {}
    /\ t_path_freed = FALSE
    /\ BootIdle
    /\ AuxIdle

MapStep(e, r) ==
    /\ t_pre' = t_mappings
    /\ t_in' = FileMapping(e.start, e.end, e.file_offset * t_page_size,
                           PathPtr(e.path, "note"))
    /\ t_err' = r.err
    /\ t_written' = r.written
    /\ t_path_freed' = r.path_freed
    /\ t_steps' = t_steps + 1
    /\ t_capacity' = r.capacity
    /\ UNCHANGED <<t_parser, t_page_size>>
    /\ UNCHANGED <<boot_vars, aux_vars>>

\* The allocations an entry leads to: resize_array when an entry is stored
\* into a full array, malloc when parse_nt_file copies the path.
needs_resize(e, page_size, mappings, capacity) ==
    LET r == append_file_mapping(e.start, e.end, e.file_offset * page_size,
                                 PathPtr(e.path, "note"), mappings, capacity, TRUE)
    IN Len(r.mappings) > Len(mappings) /\ Len(mappings) >= capacity

needs_malloc(e, page_size, mappings, capacity, resize_ok) ==
    LET r == append_file_mapping(e.start, e.end, e.file_offset * page_size,
                                 PathPtr(e.path, "note"), mappings, capacity,
                                 resize_ok)
    IN r.err = "NULL" /\ Len(r.mappings) > 0

\* parse_nt_file reads the next entry of the note.
NtFileEntry ==
    /\ t_parser = "nt_file"
    /\ t_status = "run"
    /\ t_steps < MaxEntries
    /\ \E e \in Entries, resize_ok \in BOOLEAN, malloc_ok \in BOOLEAN :
        /\ ~needs_resize(e, t_page_size, t_mappings, t_capacity) => resize_ok
        /\ ~needs_malloc(e, t_page_size, t_mappings, t_capacity, resize_ok)
               => malloc_ok
        /\ LET r == nt_file_entry(e, t_page_size, t_mappings, t_capacity,
                                  resize_ok, malloc_ok)
           IN
           /\ MapStep(e, r)
           /\ t_mappings' = r.mappings
           /\ \/ /\ r.ret # "UB"
                 /\ t_status' = IF r.ret = "continue" THEN "run" ELSE "returned"
              \* the store to slot -1: the process dies, or the store lands
              \* outside the table and the loop goes on
              \/ /\ r.ret = "UB"
                 /\ t_status' \in {"crashed", "run"}

\* parse_proc_maps reads the next line that names a file.
ProcMapsEntry ==
    /\ t_parser = "proc_maps"
    /\ t_status = "run"
    /\ t_steps < MaxEntries
    /\ \E e \in Entries, resize_ok \in BOOLEAN :
        /\ ~needs_resize(e, 1, t_mappings, t_capacity) => resize_ok
        /\ LET r == proc_maps_entry(e, t_mappings, t_capacity, resize_ok) IN
           /\ MapStep(e, r)
           /\ t_mappings' = r.mappings
           /\ t_status' = IF r.ret = "continue" THEN "run" ELSE "returned"

MapNext == NtFileEntry \/ ProcMapsEntry

SpecMap == MapInit /\ [][MapNext]_vars

-----------------------------------------------------------------------------
(* Core dumps: program headers and notes *)

\* program headers of one core dump
MaxPhdrs == 2

\* Note names as the bytes at name_offset; n_namesz is their number.
NUL == "NUL"
NameCORE == <<"C", "O", "R", "E", NUL>>
NameVMCOREINFO == <<"V", "M", "C", "O", "R", "E", "I", "N", "F", "O", NUL>>
NameLINUX == <<"L", "I", "N", "U", "X", NUL>>
NameEmpty == <<>>

\* strncmp(s1, s2, n) == 0, comparing from byte i on.
RECURSIVE strncmp_eq_from(_, _, _, _)
strncmp_eq_from(s1, s2, n, i) ==
    IF i > n THEN TRUE
    ELSE IF i > Len(s1) \/ i > Len(s2) THEN FALSE
    ELSE IF s1[i] # s2[i] THEN FALSE
    ELSE IF s1[i] = NUL THEN TRUE
    ELSE strncmp_eq_from(s1, s2, n, i + 1)

strncmp_eq(s1, s2, n) == strncmp_eq_from(s1, s2, n, 1)

Note(name, type, desc) ==
    [name |-> name, n_namesz |-> Len(name), n_type |-> type, desc |-> desc]

\* An NT_FILE descriptor: whether its words and strings fit (else the reads of
\* parse_nt_file run out of bounds), its page_size and its entries.
NtFileDesc(fits, page_size, entries) ==
    [fits |-> fits, page_size |-> page_size, entries |-> entries]

NtEntry(start, end, file_offset, path) ==
    [start |-> start, end |-> end, file_offset |-> file_offset, path |-> path]

NtFileDescs ==
    { NtFileDesc(TRUE, 1, <<NtEntry(0, 1, 0, "/bin/x"), NtEntry(1, 2, 1, "/bin/x")>>),
      NtFileDesc(TRUE, 2, <<NtEntry(0, 2, 0, "/bin/x"), NtEntry(2, 2, 1, "/lib/y")>>),
      NtFileDesc(TRUE, 1, <<NtEntry(1, 1, 0, "/lib/y")>>),
      NtFileDesc(TRUE, 1, <<NtEntry(1, 0, 0, "/bin/x")>>),
      NtFileDesc(TRUE, 1, <<>>),
      NtFileDesc(FALSE, 1, <<>>) }

\* A VMCOREINFO descriptor is kept as what parse_vmcoreinfo makes of it:
\* whether it holds an OSRELEASE= line.
VmcoreinfoDescs == [osrelease : BOOLEAN]

\* The descriptor of a note that is only recognised by name and type.
NoDesc == [ignored |-> TRUE]

Notes ==
    {Note(NameCORE, "NT_FILE", d) : d \in NtFileDescs}
    \cup {Note(NameVMCOREINFO, "0", d) : d \in VmcoreinfoDescs}
    \cup { Note(NameCORE, "NT_TASKSTRUCT", NoDesc),
           Note(NameCORE, "NT_PRSTATUS", NoDesc),
           Note(NameLINUX, "NT_TASKSTRUCT", NoDesc),
           Note(NameEmpty, "NT_TASKSTRUCT", NoDesc) }

\* A program header: PT_LOAD with its p_paddr, or PT_NOTE holding one note.
Phdrs ==
    [p_type : {"PT_LOAD"}, p_paddr : {0, 1}, note : {Note(NameEmpty, "0", NoDesc)}]
    \cup [p_type : {"PT_NOTE"}, p_paddr : {0}, note : Notes]

PhdrSeqs == UNION {[1 .. n -> Phdrs] : n \in 0 .. MaxPhdrs}

\* The filesystem magic fstatfs reports for the core file.
PROC_SUPER_MAGIC == 40864
OtherMagic == 61267

\* The program headers of a file that is not a core file are never read.
Dumps ==
    [e_type : {"ET_CORE"}, phdrs : PhdrSeqs,
     f_type : {PROC_SUPER_MAGIC, OtherMagic}]
    \cup [e_type : {"ET_EXEC"}, phdrs : {<<>>}, f_type : {OtherMagic}]

\* /proc/<pid>/maps: lines with a path (fscanf returns 4), anonymous lines
\* (3) and lines that do not parse.
MapsLine(kind, e) == [kind |-> kind, e |-> e]

MapsFiles ==
    { <<>>,
      <<MapsLine("file", NtEntry(0, 1, 0, "/bin/x")),
        MapsLine("file", NtEntry(1, 2, 1, "/bin/x")),
        MapsLine("file", NtEntry(2, 2, 0, "/lib/y"))>>,
      <<MapsLine("file", NtEntry(0, 1, 0, "/bin/x")),
        MapsLine("anon", NtEntry(1, 2, 0, "")),
        MapsLine("file", NtEntry(1, 2, 0, "/lib/y"))>>,
      <<MapsLine("file", NtEntry(0, 1, 0, "/bin/x")),
        MapsLine("file", NtEntry(1, 0, 0, "/lib/y"))>>,
      <<MapsLine("bad", NtEntry(0, 0, 0, ""))>> }

-----------------------------------------------------------------------------
(* Resources, the cleanup stack and the error paths *)

Release(what) == [ev |-> "release", what |-> what]
Run(cb) == [ev |-> "run", what |-> cb]
Remove(cb) == [ev |-> "remove", what |-> cb]

\* What each cleanup callback releases. "free" is registered with the file
\* segments as its argument.
CleanupResource(cb) ==
    CASE cb = "cleanup_fd" -> "fd"
      [] cb = "free" -> "file_segments"
      [] cb = "cleanup_dwarf_index" -> "dindex"
      [] cb = "cleanup_dwarf_type_cache" -> "dtcache"
      [] cb = "cleanup_file_mappings" -> "mappings"

\* The cleanups in the order the bootstraps register them.
Registration ==
    <<"cleanup_fd", "free", "cleanup_dwarf_index", "cleanup_dwarf_type_cache",
      "cleanup_file_mappings">>

\* drgn_program_add_cleanup: the new entry becomes the head of the list.
drgn_program_add_cleanup(cleanup, cb) == <<cb>> \o cleanup

\* A bug: every entry for cb is removed, not only the first.
drgn_program_remove_cleanup_all(cleanup, cb) ==
    [cleanup |-> SelectSeq(cleanup, LAMBDA c : c # cb),
     found |-> \E k \in 1..Len(cleanup) : cleanup[k] = cb]

\* drgn_program_remove_cleanup: the list without its first entry for cb, and
\* whether there was one.
RECURSIVE drgn_program_remove_cleanup(_, _)
drgn_program_remove_cleanup(cleanup, cb) ==
    IF cleanup = <<>> THEN [cleanup |-> <<>>, found |-> FALSE]
    ELSE IF Head(cleanup) = cb THEN [cleanup |-> Tail(cleanup), found |-> TRUE]
    ELSE LET r == drgn_program_remove_cleanup(Tail(cleanup), cb) IN
         [cleanup |-> <<Head(cleanup)>> \o r.cleanup, found |-> r.found]

\* The loop of drgn_program_deinit over the list, from its head.
RECURSIVE run_cleanups(_)
run_cleanups(cleanup) ==
    IF cleanup = <<>> THEN <<>>
    ELSE <<Run(Head(cleanup)), Release(CleanupResource(Head(cleanup)))>>
         \o run_cleanups(Tail(cleanup))

\* A bug: the cleanups run before the three sub-objects are destroyed.
drgn_program_deinit_cleanups_first(cleanup) ==
    run_cleanups(cleanup)
    \o <<Release("sindex"), Release("tindex"), Release("reader")>>

\* drgn_program_deinit: the events it produces.
drgn_program_deinit(cleanup) ==
    <<Release("sindex"), Release("tindex"), Release("reader")>>
    \o run_cleanups(cleanup)

\* The labels at the end of drgn_program_init_core_dump, in source order.
CoreLabels ==
    <<"out_cleanup_dtcache", "out_cleanup_dindex", "out_cleanup_file_segments",
      "out_cleanup_fd", "out_program", "out_dtcache", "out_tindex", "out_dindex",
      "out_mappings", "out_reader", "out_elf", "out_fd">>

\* The labels at the end of drgn_program_init_pid, in source order.
PidLabels ==
    <<"out_cleanup_dtcache", "out_cleanup_dindex", "out_cleanup_file_segment",
      "out_cleanup_fd", "out_program", "out_dtcache", "out_tindex", "out_dindex",
      "out_mappings", "out_reader", "out_file_segment", "out_fd">>

\* The statements under one label: the events and the cleanup list they
\* leave. free(NULL), elf_end(NULL) and free_file_mappings(NULL, 0) release
\* nothing.
LabelEffect(label, cleanup, l, is_core) ==
    LET removed(cb) ==
            LET r == drgn_program_remove_cleanup(cleanup, cb) IN
            [events |-> IF r.found THEN <<Remove(cb)>> ELSE <<>>,
             cleanup |-> r.cleanup]
        only(events) == [events |-> events, cleanup |-> cleanup]
        free_mappings ==
            IF l.mappings_allocated THEN <<Release("mappings")>> ELSE <<>>
    IN
    CASE label = "out_cleanup_dtcache" -> removed("cleanup_dwarf_type_cache")
      [] label = "out_cleanup_dindex" -> removed("cleanup_dwarf_index")
      [] label \in {"out_cleanup_file_segments", "out_cleanup_file_segment"} ->
            removed("free")
      [] label = "out_cleanup_fd" -> removed("cleanup_fd")
      [] label = "out_program" ->
            [events |-> drgn_program_deinit(cleanup), cleanup |-> <<>>]
      [] label = "out_dtcache" -> only(<<Release("dtcache")>>)
      [] label = "out_tindex" -> only(<<Release("tindex")>>)
      [] label = "out_dindex" -> only(<<Release("dindex")>>)
      [] label = "out_mappings" ->
            only(free_mappings
                 \o (IF is_core THEN <<Release("file_segments")>> ELSE <<>>))
      [] label = "out_reader" -> only(<<Release("reader")>>)
      [] label = "out_elf" ->
            only(IF l.elf_open THEN <<Release("elf")>> ELSE <<>>)
      [] label = "out_file_segment" -> only(<<Release("file_segments")>>)
      [] label = "out_fd" -> only(<<Release("fd")>>)

\* goto labels[k]: the statements from that label to the return.
RECURSIVE UnwindFrom(_, _, _, _, _)
UnwindFrom(labels, k, cleanup, l, is_core) ==
    IF k > Len(labels) THEN [events |-> <<>>, cleanup |-> cleanup]
    ELSE LET here == LabelEffect(labels[k], cleanup, l, is_core)
             rest == UnwindFrom(labels, k + 1, here.cleanup, l, is_core)
         IN [events |-> here.events \o rest.events, cleanup |-> rest.cleanup]

LabelIndex(labels, label) == CHOOSE k \in 1 .. Len(labels) : labels[k] = label

-----------------------------------------------------------------------------
(* Bootstrap: state *)

\* The locals of drgn_program_init_core_dump and drgn_program_init_pid at
\* their declarations.
InitialLocals ==
    [elf_open |-> FALSE,
     i |-> 1,
     num_file_segments |-> 0,
     segments_added |-> 0,
     mappings |-> <<>>,
     mappings_allocated |-> FALSE,
     mappings_capacity |-> 0,
     have_nt_file |-> FALSE,
     have_nt_taskstruct |-> FALSE,
     have_vmcoreinfo |-> FALSE,
     have_non_zero_phys_addr |-> FALSE,
     is_proc_kcore |-> "unset",
     fstatfs |-> "not called",
     vmcoreinfo |-> "unset",
     elfs |-> <<>>,
     registered |-> 0]

\* malloc(sizeof(*prog)): every member is indeterminate.
UninitializedProgram ==
    [mappings |-> "garbage",
     reader |-> "garbage", tindex |-> "garbage", sindex |-> "garbage",
     cleanup |-> <<>>, initialized |-> FALSE,
     flags |-> {}, vmcoreinfo |-> "garbage", relocation_hook |-> "unset"]

NothingObserved ==
    [failed |-> "none", code |-> "NULL", consulted |-> <<>>,
     note_vmcoreinfo |-> "unset", source_failed |-> FALSE,
     discovery |-> "none", offered |-> "none", nt_table |-> <<>>,
     registration_failed |-> 0]

BootInit ==
    /\ entry \in {"core", "pid"}
    /\ \/ entry = "core" /\ dump \in Dumps /\ maps = <<>>
       \/ entry = "pid" /\ dump = <<>> /\ maps \in MapsFiles
    /\ pc = "malloc_prog"
    /\ loc = InitialLocals
    /\ prog = UninitializedProgram
    /\ acq = {}
    /\ log = <<>>
    /\ out = [err |-> "unset", ret |-> "none"]
    /\ obs = NothingObserved

MapIdle ==
    /\ t_parser = "none"
    /\ t_page_size = 1
    /\ t_mappings = <<>>
    /\ t_capacity = 0
    /\ t_steps = 0
    /\ t_status = "idle"
    /\ t_pre = <<>>
    /\ t_in = NoEntry
    /\ t_err = "NULL"
    /\ t_written = {}
    /\ t_path_freed = FALSE

Init == BootInit /\ MapIdle /\ AuxIdle

Labels == IF entry = "core" THEN CoreLabels ELSE PidLabels

\* The events of `goto label` ("return": a plain return) with the locals l
\* and the cleanup list of pr.
GotoEvents(label, l, pr) ==
    IF label = "return" THEN [events |-> <<>>, cleanup |-> pr.cleanup]
    ELSE UnwindFrom(Labels, LabelIndex(Labels, label), pr.cleanup, l,
                    entry = "core")

\* A step fails: the init function leaves through `label` returning `code`,
\* and drgn_program_from_core_dump / _from_pid frees prog when the error is
\* non-null and stores prog in *ret when it is null.
Fail(step, code, label, l, a, pr, ob) ==
    LET u == GotoEvents(label, l, pr) IN
    /\ pc' = "done"
    /\ loc' = l
    /\ acq' = a
    /\ prog' = [pr EXCEPT !.cleanup = u.cleanup]
    /\ log' = log \o u.events
                  \o (IF code # "NULL" THEN <<Release("prog")>> ELSE <<>>)
    /\ out' = [err |-> code, ret |-> IF code = "NULL" THEN "prog" ELSE "none"]
    /\ obs' = [ob EXCEPT !.failed = step, !.code = code]
    /\ UNCHANGED <<map_vars, aux_vars, entry, dump, maps>>

\* A step succeeds and the bootstrap goes on at `next`.
Proceed(next, l, a, pr, ob) ==
    /\ pc' = next
    /\ loc' = l
    /\ acq' = a
    /\ prog' = pr
    /\ obs' = ob
    /\ UNCHANGED <<map_vars, aux_vars, entry, dump, maps, log, out>>

\* The init function returns NULL and the caller stores prog in *ret.
Succeed(l, a, pr, ob) ==
    /\ pc' = "live"
    /\ loc' = l
    /\ acq' = a
    /\ prog' = pr
    /\ obs' = ob
    /\ out' = [err |-> "NULL", ret |-> "prog"]
    /\ UNCHANGED <<map_vars, aux_vars, entry, dump, maps, log>>

-----------------------------------------------------------------------------
(* drgn_program_from_core_dump, drgn_program_init_core_dump *)

\* prog = malloc(sizeof(*prog)) in drgn_program_from_core_dump / _from_pid.
MallocProgram ==
    /\ pc = "malloc_prog"
    /\ \E ok \in BOOLEAN :
        IF ok THEN
            Proceed("open", loc, acq \cup {"prog"}, prog, obs)
        ELSE
            /\ pc' = "done"
            /\ out' = [err |-> "ENOMEM", ret |-> "none"]
            /\ obs' = [obs EXCEPT !.failed = "malloc_prog", !.code = "ENOMEM"]
            /\ UNCHANGED <<map_vars, aux_vars, entry, dump, maps, loc, prog, acq, log>>

\* fd = open(path, O_RDONLY)
CoreOpen ==
    /\ entry = "core" /\ pc = "open"
    /\ \E ok \in BOOLEAN :
        IF ok THEN Proceed("elf_begin", loc, acq \cup {"fd"}, prog, obs)
        ELSE Fail("open", "OS", "return", loc, acq, prog, obs)

\* elf = elf_begin(fd, ELF_C_READ, NULL)
CoreElfBegin ==
    /\ entry = "core" /\ pc = "elf_begin"
    /\ \E ok \in BOOLEAN :
        IF ok THEN
            Proceed("ehdr", [loc EXCEPT !.elf_open = TRUE], acq \cup {"elf"},
                    prog, obs)
        ELSE Fail("elf_begin", "LIBELF", "out_fd", loc, acq, prog, obs)

\* gelf_getehdr, the e_type check and elf_getphdrnum
CoreElfHeader ==
    /\ entry = "core" /\ pc = "ehdr"
    /\ \E fault \in {"none", "gelf_getehdr", "elf_getphdrnum"} :
        IF fault = "gelf_getehdr" THEN
            Fail(fault, "LIBELF", "out_elf", loc, acq, prog, obs)
        ELSE IF dump.e_type # "ET_CORE" THEN
            Fail("e_type", "INVALID_ARGUMENT", "out_elf", loc, acq, prog, obs)
        ELSE IF fault = "elf_getphdrnum" THEN
            Fail(fault, "LIBELF", "out_elf", loc, acq, prog, obs)
        ELSE Proceed("pass1", loc, acq, prog, obs)

IsLoad(k) == dump.phdrs[k].p_type = "PT_LOAD"

\* First pass over the program headers.
CoreFirstPass ==
    /\ entry = "core" /\ pc = "pass1"
    /\ \E ok \in BOOLEAN :
        IF ~ok /\ Len(dump.phdrs) > 0 THEN
            Fail("gelf_getphdr", "LIBELF", "out_elf", loc, acq, prog, obs)
        ELSE
            Proceed("reader",
                    [loc EXCEPT
                       !.num_file_segments =
                           Cardinality({k \in 1 .. Len(dump.phdrs) : IsLoad(k)}),
                       !.have_non_zero_phys_addr =
                           \E k \in 1 .. Len(dump.phdrs) :
                               IsLoad(k) /\ dump.phdrs[k].p_paddr # 0],
                    acq, prog, obs)

\* drgn_memory_reader_create(&reader)
CoreReaderCreate ==
    /\ entry = "core" /\ pc = "reader"
    /\ \E ok \in BOOLEAN :
        IF ok THEN Proceed("file_segments", loc, acq \cup {"reader"}, prog, obs)
        ELSE Fail("drgn_memory_reader_create", "ENOMEM", "out_elf", loc, acq,
                  prog, obs)

\* err at `goto out_reader` after malloc_array failed: no assignment is made,
\* so it is still what drgn_memory_reader_create returned.
file_segments_failure_code(err) == err

\* file_segments = malloc_array(num_file_segments, sizeof(*file_segments))
CoreAllocFileSegments ==
    /\ entry = "core" /\ pc = "file_segments"
    /\ \E ok \in BOOLEAN :
        IF ok THEN
            Proceed("pass2", loc, acq \cup {"file_segments"}, prog, obs)
        ELSE Fail("malloc_array", file_segments_failure_code("NULL"),
                  "out_reader", loc, acq, prog, obs)

\* The loop of parse_nt_file from entry k on. alloc_ok: the allocations
\* succeed; lucky: the store to slot -1 does no harm and the loop goes on.
RECURSIVE nt_file_entries(_, _, _, _, _, _, _)
nt_file_entries(entries, k, page_size, mappings, capacity, alloc_ok, lucky) ==
    IF k > Len(entries) THEN
        [ret |-> "NULL", mappings |-> mappings, capacity |-> capacity]
    ELSE
        LET r == nt_file_entry(entries[k], page_size, mappings, capacity,
                               alloc_ok, alloc_ok)
        IN
        IF r.ret = "continue" \/ (r.ret = "UB" /\ lucky) THEN
            nt_file_entries(entries, k + 1, page_size, r.mappings, r.capacity,
                            alloc_ok, lucky)
        ELSE [ret |-> r.ret, mappings |-> r.mappings, capacity |-> r.capacity]

\* parse_nt_file on a descriptor
parse_nt_file(desc, mappings, capacity, alloc_ok, lucky) ==
    IF ~desc.fits THEN
        [ret |-> "ELF_FORMAT", mappings |-> mappings, capacity |-> capacity]
    ELSE nt_file_entries(desc.entries, 1, desc.page_size, mappings, capacity,
                         alloc_ok, lucky)

\* parse_nt_file loads *num_mappings: some entry reaches the tests of
\* append_file_mapping that follow the start > end test.
reads_num_mappings(desc) ==
    /\ desc.fits
    /\ Len(desc.entries) > 0
    /\ desc.entries[1].start <= desc.entries[1].end

\* The table parse_nt_file is called on in drgn_program_init_core_dump:
\* &prog->mappings and &prog->num_mappings.
nt_file_target(pr, l) == pr.mappings

\* One iteration of the second pass: program header loc.i.
CoreSecondPass ==
    /\ entry = "core" /\ pc = "pass2"
    /\ loc.i <= Len(dump.phdrs)
    /\ \E fault \in {"none", "gelf_getphdr", "call", "alloc"}, lucky \in BOOLEAN :
        LET ph == dump.phdrs[loc.i]
            n == ph.note
            next == [loc EXCEPT !.i = loc.i + 1]
            core_note == strncmp_eq(n.name, NameCORE, n.n_namesz)
            vmcore_note == strncmp_eq(n.name, NameVMCOREINFO, n.n_namesz)
        IN
        IF fault = "gelf_getphdr" THEN
            Fail(fault, "LIBELF", "out_mappings", loc, acq, prog, obs)
        ELSE IF ph.p_type = "PT_LOAD" THEN
            IF loc.segments_added = loc.num_file_segments THEN
                Proceed("pass2", next, acq, prog, obs)
            ELSE IF fault = "call" THEN
                Fail("drgn_memory_reader_add_segment", "ENOMEM", "out_mappings",
                     loc, acq, prog, obs)
            ELSE
                Proceed("pass2",
                        [next EXCEPT !.segments_added = loc.segments_added + 1],
                        acq, prog, obs)
        ELSE IF fault = "call" THEN
            Fail("elf_getdata_rawchunk", "LIBELF", "out_mappings", loc, acq,
                 prog, obs)
        ELSE IF core_note /\ n.n_type = "NT_FILE" THEN
            LET target == nt_file_target(prog, loc)
                garbage == target = "garbage" /\ reads_num_mappings(n.desc)
                r == parse_nt_file(n.desc,
                                   IF target = "garbage" THEN <<>> ELSE target,
                                   loc.mappings_capacity, fault # "alloc", lucky)
                pr == IF target = "garbage" /\ ~reads_num_mappings(n.desc)
                      THEN prog
                      ELSE [prog EXCEPT !.mappings = r.mappings]
                a == IF r.capacity > 0 THEN acq \cup {"nt_table"} ELSE acq
                l == [loc EXCEPT !.mappings_capacity = r.capacity]
                ob == [obs EXCEPT !.nt_table = r.mappings]
            IN
            IF (garbage /\ ~lucky) \/ r.ret = "UB" THEN
                \* an indeterminate *num_mappings, or the store to slot -1
                /\ pc' = "crashed"
                /\ UNCHANGED <<map_vars, aux_vars, entry, dump, maps, loc, prog, acq, log,
                               out, obs>>
            ELSE IF r.ret # "NULL" THEN
                Fail("parse_nt_file", r.ret, "out_mappings", l, a, pr, ob)
            ELSE
                Proceed("pass2", [l EXCEPT !.i = loc.i + 1, !.have_nt_file = TRUE],
                        a, pr, ob)
        ELSE IF core_note /\ n.n_type = "NT_TASKSTRUCT" THEN
            Proceed("pass2", [next EXCEPT !.have_nt_taskstruct = TRUE], acq,
                    prog, obs)
        ELSE IF ~core_note /\ vmcore_note THEN
            LET ob == [obs EXCEPT !.consulted = Append(obs.consulted, "note")] IN
            IF ~n.desc.osrelease THEN
                Fail("parse_vmcoreinfo", "OTHER", "out_mappings", loc, acq, prog,
                     [ob EXCEPT !.source_failed = TRUE])
            ELSE
                Proceed("pass2",
                        [next EXCEPT !.have_vmcoreinfo = TRUE,
                                     !.vmcoreinfo = "note"],
                        acq, prog, ob)
        ELSE Proceed("pass2", next, acq, prog, obs)

\* A bug: an NT_TASKSTRUCT note alone makes the file /proc/kcore.
is_proc_kcore_any_filesystem(have_vmcoreinfo, have_nt_taskstruct, f_type) ==
    have_vmcoreinfo \/ have_nt_taskstruct

\* is_proc_kcore as the if chain after the second pass sets it
is_proc_kcore(have_vmcoreinfo, have_nt_taskstruct, f_type) ==
    IF have_vmcoreinfo THEN TRUE
    ELSE IF have_nt_taskstruct THEN f_type = PROC_SUPER_MAGIC
    ELSE FALSE

\* A bug: the failure of fstatfs is dropped and the file goes on as one that
\* is not /proc/kcore.
fstatfs_error_dropped(fstatfs_ok) == "NULL"

\* if (fstatfs(fd, &fs) == -1) err = drgn_error_create_os(errno, path,
\* "fstatfs"), which is an error object in every case, so that the
\* if (err) that follows it is always taken.
fstatfs_error(fstatfs_ok) == IF fstatfs_ok THEN "NULL" ELSE "OS"

\* After the second pass: elf_end(elf), then is_proc_kcore.
CoreClassify ==
    /\ entry = "core" /\ pc = "pass2"
    /\ loc.i > Len(dump.phdrs)
    /\ \E fstatfs_ok \in BOOLEAN :
        LET called == ~loc.have_vmcoreinfo /\ loc.have_nt_taskstruct
            l == [loc EXCEPT !.elf_open = FALSE,
                             !.fstatfs = IF ~called THEN "not called"
                                         ELSE IF fstatfs_ok THEN "ok"
                                         ELSE "failed"]
            ob == [obs EXCEPT !.note_vmcoreinfo =
                           IF loc.have_vmcoreinfo THEN "seen" ELSE "absent"]
        IN
        IF called /\ fstatfs_error(fstatfs_ok) # "NULL" THEN
            LET u == GotoEvents("out_mappings", l, prog) IN
            /\ pc' = "done"
            /\ loc' = l
            /\ out' = [err |-> fstatfs_error(fstatfs_ok), ret |-> "none"]
            /\ obs' = [ob EXCEPT !.failed = "fstatfs",
                                 !.code = fstatfs_error(fstatfs_ok)]
            /\ log' = Append(log, Release("elf")) \o u.events
                          \o <<Release("prog")>>
            /\ UNCHANGED <<map_vars, aux_vars, entry, dump, maps, prog, acq>>
        ELSE
            /\ pc' = "vmcoreinfo"
            /\ loc' = [l EXCEPT !.is_proc_kcore =
                           is_proc_kcore(loc.have_vmcoreinfo,
                                         loc.have_nt_taskstruct, dump.f_type)]
            /\ obs' = ob
            /\ log' = Append(log, Release("elf"))
            /\ UNCHANGED <<map_vars, aux_vars, entry, dump, maps, prog, acq, out>>

\* A bug: the hackier fallback is tried first.
vmcoreinfo_source_fallback_first(have_vmcoreinfo, have_non_zero_phys_addr) ==
    IF have_vmcoreinfo THEN "note" ELSE "fallback"

\* Where the vmcoreinfo of a kernel target comes from.
vmcoreinfo_source(have_vmcoreinfo, have_non_zero_phys_addr) ==
    IF have_vmcoreinfo THEN "note"
    ELSE IF have_non_zero_phys_addr THEN "sysfs"
    ELSE "fallback"

\* The kernel / user-space decision and the vmcoreinfo of a kernel target.
CoreVmcoreinfo ==
    /\ entry = "core" /\ pc = "vmcoreinfo"
    /\ \E ok \in BOOLEAN :
        IF loc.have_vmcoreinfo \/ loc.is_proc_kcore THEN
            LET src == vmcoreinfo_source(loc.have_vmcoreinfo,
                                         loc.have_non_zero_phys_addr)
                \* free_file_mappings(mappings, num_mappings); mappings = NULL
                freed == IF loc.mappings_allocated
                         THEN <<Release("mappings")>> ELSE <<>>
                l == [loc EXCEPT !.mappings = <<>>, !.mappings_allocated = FALSE]
                ob == [obs EXCEPT !.consulted = Append(obs.consulted, src)]
            IN
            IF src = "note" THEN
                /\ log' = log \o freed
                /\ pc' = "dindex_create"
                /\ loc' = l
                /\ UNCHANGED <<map_vars, aux_vars, entry, dump, maps, prog, acq, out, obs>>
            ELSE IF ok THEN
                /\ log' = log \o freed
                /\ pc' = "dindex_create"
                /\ loc' = [l EXCEPT !.have_vmcoreinfo = TRUE, !.vmcoreinfo = src]
                /\ obs' = ob
                /\ UNCHANGED <<map_vars, aux_vars, entry, dump, maps, prog, acq, out>>
            ELSE
                LET u == GotoEvents("out_mappings", l, prog) IN
                /\ log' = log \o freed \o u.events \o <<Release("prog")>>
                /\ pc' = "done"
                /\ loc' = l
                /\ out' = [err |-> "OTHER", ret |-> "none"]
                /\ obs' = [ob EXCEPT !.failed = src, !.code = "OTHER",
                                     !.source_failed = TRUE]
                /\ UNCHANGED <<map_vars, aux_vars, entry, dump, maps, prog, acq>>
        ELSE IF ~loc.have_nt_file THEN
            Fail("no_note", "INVALID_ARGUMENT", "out_mappings", loc, acq, prog,
                 obs)
        ELSE Proceed("dindex_create", loc, acq, prog, obs)

-----------------------------------------------------------------------------
(* The indexes, shared by drgn_program_init_core_dump and _init_pid *)

\* A creation or update call: it fails and control goes to `label`, or it
\* succeeds, the resources `made` are owned and control goes to `next`.
Stage(step, made, label, next) ==
    \E ok \in BOOLEAN :
        IF ok THEN Proceed(next, loc, acq \cup made, prog, obs)
        ELSE Fail(step, "ENOMEM", label, loc, acq, prog, obs)

\* err = drgn_dwarf_index_create(PROGRAM_DWARF_INDEX_FLAGS, &dindex)
DindexCreate ==
    /\ pc = "dindex_create"
    /\ Stage("drgn_dwarf_index_create", {"dindex"},
          "out_mappings", "open_files")

\* What drgn_dwarf_index_open can make of one file.
OpenOutcomes == {"ok", "ENOENT", "NOT_ELF", "MISSING_DEBUG", "OS"}

\* The loop of open_userspace_files from mapping i on: the error returned
\* and the elf member of every mapping visited.
RECURSIVE open_userspace_from(_, _, _, _, _)
open_userspace_from(mappings, outcome, i, success, elfs) ==
    IF i > Len(mappings) THEN
        [err |-> IF success THEN "NULL" ELSE "MISSING_DEBUG", elfs |-> elfs]
    ELSE IF outcome[i] = "ok" THEN
        open_userspace_from(mappings, outcome, i + 1, TRUE,
                            Append(elfs, mappings[i].path.name))
    ELSE IF outcome[i] \in {"ENOENT", "NOT_ELF", "MISSING_DEBUG"} THEN
        open_userspace_from(mappings, outcome, i + 1, success,
                            Append(elfs, "NULL"))
    ELSE [err |-> outcome[i], elfs |-> Append(elfs, "NULL")]

\* A bug: success starts out true.
open_userspace_files_success_set(mappings, outcome) ==
    open_userspace_from(mappings, outcome, 1, TRUE, <<>>)

open_userspace_files(mappings, outcome) ==
    open_userspace_from(mappings, outcome, 1, FALSE, <<>>)

\* The table drgn_program_init_core_dump hands to open_userspace_files and
\* later stores in prog->mappings: the locals mappings, num_mappings.
discovery_table(pr, l) == l.mappings

\* open_kernel_files or open_userspace_files
OpenFiles ==
    /\ pc = "open_files"
    /\ IF entry = "core" /\ loc.have_vmcoreinfo THEN
           \E r \in {"NULL", "MISSING_DEBUG", "OS"} :
               LET ob == [obs EXCEPT !.discovery = "kernel"] IN
               IF r = "NULL" THEN Proceed("dindex_update", loc, acq, prog, ob)
               ELSE Fail("open_kernel_files", r, "out_dindex", loc, acq, prog, ob)
       ELSE
           LET table == discovery_table(prog, loc) IN
           \E outcome \in [1 .. Len(table) -> OpenOutcomes] :
               LET r == open_userspace_files(table, outcome)
                   l == [loc EXCEPT !.elfs = r.elfs]
                   ob == [obs EXCEPT !.discovery = "userspace",
                                     !.offered = table]
               IN
               IF r.err = "NULL" THEN Proceed("dindex_update", l, acq, prog, ob)
               ELSE Fail("open_userspace_files", r.err, "out_dindex", l, acq,
                         prog, ob)

\* err = drgn_dwarf_index_update(dindex)
DindexUpdate ==
    /\ pc = "dindex_update"
    /\ Stage("drgn_dwarf_index_update", {}, "out_dindex",
          "tindex_create")

\* err = drgn_type_index_create(..., &tindex)
TindexCreate ==
    /\ pc = "tindex_create"
    /\ Stage("drgn_type_index_create", {"tindex"}, "out_dindex",
          "dtcache_create")

\* err = drgn_dwarf_type_cache_create(tindex, dindex, &dtcache)
DtcacheCreate ==
    /\ pc = "dtcache_create"
    /\ Stage("drgn_dwarf_type_cache_create", {"dtcache"},
          "out_tindex", "add_finder")

\* err = drgn_type_index_add_finder(tindex, drgn_dwarf_type_find, dtcache)
AddFinder ==
    /\ pc = "add_finder"
    /\ Stage("drgn_type_index_add_finder", {}, "out_dtcache",
          "dsindex_create")

\* err = drgn_dwarf_symbol_index_create(dtcache, &dsindex)
DsindexCreate ==
    /\ pc = "dsindex_create"
    /\ Stage("drgn_dwarf_symbol_index_create", {"sindex"},
          "out_dtcache", "program_init")

\* drgn_program_init
drgn_program_init(pr) ==
    [pr EXCEPT !.reader = "reader", !.tindex = "tindex", !.sindex = "sindex",
               !.cleanup = <<>>, !.flags = {}, !.initialized = TRUE]

\* drgn_program_init, and in drgn_program_init_pid the stores that follow it.
ProgramInit ==
    /\ pc = "program_init"
    /\ LET pr == drgn_program_init(prog) IN
       Proceed("add_cleanup", loc, acq,
               IF entry = "pid"
               THEN [pr EXCEPT !.mappings = loc.mappings,
                               !.relocation_hook = "userspace_relocation_hook"]
               ELSE pr,
               obs)

\* A bug: a failed registration leaves the earlier entries on the list.
RegistrationLabel_keeps_entries(k) == "out_program"

\* Where a failed registration k goes.
RegistrationLabel(k) ==
    CASE k = 1 -> "out_program"
      [] k = 2 -> "out_cleanup_fd"
      [] k = 3 -> IF entry = "core" THEN "out_cleanup_file_segments"
                  ELSE "out_cleanup_file_segment"
      [] k = 4 -> "out_cleanup_dindex"
      [] k = 5 -> "out_cleanup_dtcache"

\* The next drgn_program_add_cleanup call of the bootstrap.
AddCleanup ==
    /\ pc = "add_cleanup"
    /\ \E ok \in BOOLEAN :
        LET k == loc.registered + 1
            l == [loc EXCEPT !.registered = k]
            pr == [prog EXCEPT !.cleanup =
                       drgn_program_add_cleanup(prog.cleanup, Registration[k])]
        IN
        IF ~ok THEN
            Fail("drgn_program_add_cleanup", "ENOMEM", RegistrationLabel(k),
                 loc, acq, prog, [obs EXCEPT !.registration_failed = k])
        ELSE IF k = 5 THEN Succeed(l, acq, pr, obs)
        ELSE IF k = 4 /\ entry = "core" THEN Proceed("wire", l, acq, pr, obs)
        ELSE Proceed("add_cleanup", l, acq, pr, obs)

\* drgn_program_init_core_dump after its fourth registration.
CoreWire ==
    /\ entry = "core" /\ pc = "wire"
    /\ IF loc.have_vmcoreinfo THEN
           Succeed(loc, acq,
                   [prog EXCEPT !.flags = prog.flags \cup {"IS_LINUX_KERNEL"},
                                !.vmcoreinfo = loc.vmcoreinfo,
                                !.relocation_hook = "kernel_relocation_hook"],
                   obs)
       ELSE
           Proceed("add_cleanup", loc, acq,
                   [prog EXCEPT !.mappings = discovery_table(prog, loc),
                                !.relocation_hook = "userspace_relocation_hook"],
                   obs)

-----------------------------------------------------------------------------
(* drgn_program_from_pid, drgn_program_init_pid *)

\* fd = open("/proc/<pid>/mem", O_RDONLY)
PidOpen ==
    /\ entry = "pid" /\ pc = "open"
    /\ \E ok \in BOOLEAN :
        IF ok THEN Proceed("file_segment", loc, acq \cup {"fd"}, prog, obs)
        ELSE Fail("open", "OS", "return", loc, acq, prog, obs)

\* file_segment = malloc(sizeof(*file_segment))
PidAllocFileSegment ==
    /\ entry = "pid"
    /\ pc = "file_segment"
    /\ Stage("malloc", {"file_segments"}, "out_fd", "reader")

\* err = drgn_memory_reader_create(&reader)
PidReaderCreate ==
    /\ entry = "pid"
    /\ pc = "reader"
    /\ Stage("drgn_memory_reader_create", {"reader"},
             "out_file_segment", "add_segment")

\* err = drgn_memory_reader_add_segment(reader, 0, UINT64_MAX, ...)
PidAddSegment ==
    /\ entry = "pid"
    /\ pc = "add_segment"
    /\ Stage("drgn_memory_reader_add_segment", {}, "out_reader",
             "proc_maps")

\* The loop of parse_proc_maps from line k on.
RECURSIVE proc_maps_lines(_, _, _, _, _)
proc_maps_lines(lines, k, mappings, capacity, alloc_ok) ==
    IF k > Len(lines) THEN
        [ret |-> "NULL", mappings |-> mappings, capacity |-> capacity]
    ELSE IF lines[k].kind = "anon" THEN
        proc_maps_lines(lines, k + 1, mappings, capacity, alloc_ok)
    ELSE IF lines[k].kind # "file" THEN
        [ret |-> "OTHER", mappings |-> mappings, capacity |-> capacity]
    ELSE
        LET r == proc_maps_entry(lines[k].e, mappings, capacity, alloc_ok) IN
        IF r.ret = "continue" THEN
            proc_maps_lines(lines, k + 1, r.mappings, r.capacity, alloc_ok)
        ELSE [ret |-> r.ret, mappings |-> r.mappings, capacity |-> r.capacity]

\* parse_proc_maps(buf, &mappings, &num_mappings)
PidParseProcMaps ==
    /\ entry = "pid" /\ pc = "proc_maps"
    /\ \E fault \in {"none", "fopen", "alloc"} :
        IF fault = "fopen" THEN
            Fail("fopen", "OS", "out_mappings", loc, acq, prog, obs)
        ELSE
            LET r == proc_maps_lines(maps, 1, <<>>, 0, fault # "alloc")
                l == [loc EXCEPT !.mappings = r.mappings,
                                 !.mappings_allocated = r.capacity > 0]
                a == IF r.capacity > 0 THEN acq \cup {"mappings"} ELSE acq
            IN
            IF r.ret = "NULL" THEN Proceed("dindex_create", l, a, prog, obs)
            ELSE Fail("parse_proc_maps", r.ret, "out_mappings", l, a, prog, obs)

-----------------------------------------------------------------------------
(* drgn_program_destroy *)

\* drgn_program_destroy(prog): drgn_program_deinit, then free(prog).
Destroy ==
    /\ pc = "live"
    /\ pc' = "destroyed"
    /\ log' = log \o drgn_program_deinit(prog.cleanup) \o <<Release("prog")>>
    /\ prog' = [prog EXCEPT !.cleanup = <<>>]
    /\ UNCHANGED <<map_vars, aux_vars, entry, dump, maps, loc, acq, out, obs>>

Next ==
    \/ MallocProgram
    \/ CoreOpen
    \/ CoreElfBegin
    \/ CoreElfHeader
    \/ CoreFirstPass
    \/ CoreReaderCreate
    \/ CoreAllocFileSegments
    \/ CoreSecondPass
    \/ CoreClassify
    \/ CoreVmcoreinfo
    \/ DindexCreate
    \/ OpenFiles
    \/ DindexUpdate
    \/ TindexCreate
    \/ DtcacheCreate
    \/ AddFinder
    \/ DsindexCreate
    \/ ProgramInit
    \/ AddCleanup
    \/ CoreWire
    \/ PidOpen
    \/ PidAllocFileSegment
    \/ PidReaderCreate
    \/ PidAddSegment
    \/ PidParseProcMaps
    \/ Destroy

Spec == Init /\ [][Next]_vars

-----------------------------------------------------------------------------
(* VMCOREINFO: parse_vmcoreinfo and the three sources of a vmcoreinfo *)

\* Text is a sequence of characters, each a string of length one.
LF == "\n"

\* The character at index i of a buffer; past its end, a byte that is not
\* part of it (whatever it is, it ends neither a prefix nor a number that
\* parse_vmcoreinfo accepts).
At(text, i) == IF i >= 1 /\ i <= Len(text) THEN text[i] ELSE "NUL"

LowerHex ==
    <<"0", "1", "2", "3", "4", "5", "6", "7", "8", "9",
      "a", "b", "c", "d", "e", "f">>
UpperHex ==
    <<"0", "1", "2", "3", "4", "5", "6", "7", "8", "9",
      "A", "B", "C", "D", "E", "F">>

\* isxdigit
IsHex(c) == \E d \in 1 .. 16 : LowerHex[d] = c \/ UpperHex[d] = c

\* The value of a hexadecimal digit.
HexVal(c) == (CHOOSE d \in 1 .. 16 : LowerHex[d] = c \/ UpperHex[d] = c) - 1

\* isspace, the vertical tab left out
IsSpace(c) == c \in {" ", "\t", LF, "\f", "\r"}

\* An unsigned long long is kept as its hexadecimal digits, most significant
\* first, without leading zeros (zero is the empty sequence): 64 bits are
\* sixteen digits.
Strip(ds) ==
    LET nz == {i \in 1 .. Len(ds) : ds[i] # 0} IN
    IF nz = {} THEN <<>>
    ELSE SubSeq(ds, CHOOSE i \in nz : \A j \in nz : i <= j, Len(ds))

ULLONG_MAX == [i \in 1 .. 16 |-> 15]

Pad16(ds) == [i \in 1 .. 16 |-> IF i <= 16 - Len(ds) THEN 0
                                  ELSE ds[i - (16 - Len(ds))]]

\* a + b modulo 2^64: digit i takes a carry when a lower digit makes one
\* and the digits between pass it on
Add64(a, b) ==
    LET pa == Pad16(a)
        pb == Pad16(b)
        carry(i) ==
            IF \E j \in i + 1 .. 16 :
                   /\ pa[j] + pb[j] >= 16
                   /\ \A k \in i + 1 .. j - 1 : pa[k] + pb[k] = 15
            THEN 1 ELSE 0
    IN Strip([i \in 1 .. 16 |-> (pa[i] + pb[i] + carry(i)) % 16])

\* -ds modulo 2^64: the complement, plus one
Neg64(ds) == Add64([i \in 1 .. 16 |-> 15 - Pad16(ds)[i]], <<1>>)

\* A bug: the spaces before a number are not skipped.
SkipSpaces_none(text, i) == i

\* The index of the first character at or after i that is not a space.
RECURSIVE SkipSpaces(_, _)
SkipSpaces(text, i) ==
    IF IsSpace(At(text, i)) THEN SkipSpaces(text, i + 1) ELSE i

\* The index after the run of hexadecimal digits that starts at i.
RECURSIVE SkipHex(_, _)
SkipHex(text, i) ==
    IF IsHex(At(text, i)) THEN SkipHex(text, i + 1) ELSE i

\* A bug: a value of ULLONG_MAX is taken for an overflow.
strtoull_range_error_on_max(ds) == Len(ds) > 16 \/ ds = ULLONG_MAX

\* strtoull sets ERANGE when the digits do not fit in 64 bits.
strtoull_range_error(ds) == Len(ds) > 16

\* strtoull(&text[s], &nend, 16): the value, nend, and whether errno is
\* ERANGE. Spaces, then an optional sign, then an optional 0x or 0X that a
\* digit follows, then the digits.
strtoull(text, s) ==
    LET i1 == SkipSpaces(text, s)
        negative == At(text, i1) = "-"
        i2 == IF At(text, i1) \in {"+", "-"} THEN i1 + 1 ELSE i1
        i3 == IF /\ At(text, i2) = "0"
                 /\ At(text, i2 + 1) \in {"x", "X"}
                 /\ IsHex(At(text, i2 + 2))
              THEN i2 + 2 ELSE i2
        j == SkipHex(text, i3)
        ds == Strip([k \in 1 .. j - i3 |-> HexVal(At(text, i3 + k - 1))])
    IN
    IF j = i3 THEN [value |-> <<>>, nend |-> s, erange |-> FALSE]
    ELSE IF strtoull_range_error(ds) THEN
        [value |-> ULLONG_MAX, nend |-> j, erange |-> TRUE]
    ELSE [value |-> IF negative THEN Neg64(ds) ELSE ds, nend |-> j,
          erange |-> FALSE]

KeyOSRELEASE == <<"O", "S", "R", "E", "L", "E", "A", "S", "E", "=">>
KeyKERNELOFFSET == <<"K", "E", "R", "N", "E", "L", "O", "F", "F", "S", "E", "T", "=">>

\* linematch(&line, prefix): strncmp(*line, prefix, strlen(prefix)) == 0
linematch(text, line, prefix) ==
    \A k \in 1 .. Len(prefix) : At(text, line + k - 1) = prefix[k]

\* memchr(line, '\n', end - line): the index of the newline, 0 for NULL
RECURSIVE memchr_newline(_, _)
memchr_newline(text, line) ==
    IF line > Len(text) THEN 0
    ELSE IF text[line] = LF THEN line
    ELSE memchr_newline(text, line + 1)

\* sizeof(ret->osrelease); struct vmcoreinfo is declared in program.h
OsreleaseSize == 64

\* struct vmcoreinfo after the two stores at the top of parse_vmcoreinfo
EmptyVmcoreinfo == [osrelease |-> <<>>, kaslr_offset |-> <<>>]

\* A bug: the last character of the value is not copied.
copy_osrelease_short(text, line, newline) ==
    SubSeq(text, line, newline - 2)

\* memcpy(ret->osrelease, line, newline - line) and the terminating NUL
copy_osrelease(text, line, newline) ==
    SubSeq(text, line, newline - 1)

\* One turn of the while loop of parse_vmcoreinfo, on the line that starts
\* at `line` and ends at `newline`.
vmcoreinfo_line(text, line, newline, ret) ==
    IF linematch(text, line, KeyOSRELEASE) THEN
        LET value == line + Len(KeyOSRELEASE) IN
        IF newline - value >= OsreleaseSize THEN [err |-> "OTHER", ret |-> ret]
        ELSE [err |-> "NULL",
              ret |-> [ret EXCEPT !.osrelease =
                          copy_osrelease(text, value, newline)]]
    ELSE IF linematch(text, line, KeyKERNELOFFSET) THEN
        LET value == line + Len(KeyKERNELOFFSET)
            r == strtoull(text, value)
        IN
        IF r.erange THEN [err |-> "OVERFLOW", ret |-> ret]
        ELSE IF r.nend = value \/ r.nend # newline THEN
            [err |-> "OVERFLOW", ret |-> ret]
        ELSE [err |-> "NULL", ret |-> [ret EXCEPT !.kaslr_offset = r.value]]
    ELSE [err |-> "NULL", ret |-> ret]

\* A bug: a record without OSRELEASE is accepted.
osrelease_missing_never(ret) == FALSE

\* !ret->osrelease[0]
osrelease_missing(ret) == ret.osrelease = <<>>

\* parse_vmcoreinfo from the line that starts at `line`.
RECURSIVE vmcoreinfo_from(_, _, _)
vmcoreinfo_from(text, line, ret) ==
    LET newline == memchr_newline(text, line) IN
    IF line > Len(text) \/ newline = 0 THEN
        [err |-> IF osrelease_missing(ret) THEN "OTHER" ELSE "NULL",
         ret |-> ret]
    ELSE LET r == vmcoreinfo_line(text, line, newline, ret) IN
         IF r.err # "NULL" THEN r
         ELSE vmcoreinfo_from(text, newline + 1, r.ret)

parse_vmcoreinfo(text) == vmcoreinfo_from(text, 1, EmptyVmcoreinfo)


\* a - b modulo 2^64
Sub64(a, b) == Add64(a, Neg64(b))

\* The longest text a line of a payload is built from here.
Filler(n) == [i \in 1 .. n |-> "r"]

\* The number of lines of the payloads that are tried.
MaxLines == 2

OsreleaseValues == {<<"5", ".", "4">>, <<>>, Filler(OsreleaseSize - 1), Filler(OsreleaseSize)}

KerneloffsetValues ==
    {<<"1", "a", "0", "0", "0", "0", "0">>,
     <<"F", "F", "F", "F", "F", "F", "F", "F", "F", "F", "F", "F", "F", "F", "F", "F">>,
     <<"1", "0", "0", "0", "0", "0", "0", "0", "0", "0", "0", "0", "0", "0", "0", "0", "0">>,
     <<"0", "0", "0", "0", "0", "0", "0", "0", "0", "0", "0", "0", "0", "0", "0", "1", "2">>,
     <<>>,
     <<" ", "1", "2">>,
     <<"+", "1", "2">>,
     <<"-", "1", "2">>,
     <<"0", "x", "1", "2">>,
     <<"1", "2", " ">>,
     <<"1", "g">>,
     <<"0", "0", "1", "2">>,
     <<"A", "B">>,
     <<"0">>,
     <<"0", "x">>,
     <<"\t", "1">>}

\* The lines of a payload, without their newlines.
VmcoreinfoLines ==
    {KeyOSRELEASE \o v : v \in OsreleaseValues}
        \cup {KeyKERNELOFFSET \o v : v \in KerneloffsetValues}
        \cup {<<"C", "R", "A", "S", "H", "T", "I", "M", "E", "=", "1">>}

RECURSIVE JoinLines(_)
JoinLines(ls) ==
    IF ls = <<>> THEN <<>> ELSE Head(ls) \o <<LF>> \o JoinLines(Tail(ls))

\* Descriptors: whole lines, and whole lines that an unterminated one follows.
Payloads ==
    LET whole == UNION {[1 .. n -> VmcoreinfoLines] : n \in 0 .. MaxLines} IN
    {JoinLines(ls) : ls \in whole}
        \cup {JoinLines(ls) \o KeyKERNELOFFSET \o <<"7">> : ls \in whole}

\* What read_vmcoreinfo_from_sysfs meets before it parses: the calls that can
\* fail and the fields of the note header it checks.
SysfsRead ==
    [fopen : BOOLEAN, fscanf : BOOLEAN, malloc64 : BOOLEAN, read : BOOLEAN,
     size_ok : BOOLEAN, n_namesz : {10, 11}, name_ok : BOOLEAN,
     descsz_ok : BOOLEAN]

GoodSysfsRead ==
    [fopen |-> TRUE, fscanf |-> TRUE, malloc64 |-> TRUE, read |-> TRUE,
     size_ok |-> TRUE, n_namesz |-> 11, name_ok |-> TRUE, descsz_ok |-> TRUE]

\* The reads that differ from the good one in at most one place.
SysfsReads ==
    {r \in SysfsRead :
        Cardinality({f \in DOMAIN r : r[f] # GoodSysfsRead[f]}) <= 1}

\* read_vmcoreinfo_from_sysfs: the note at the physical address that
\* /sys/kernel/vmcoreinfo names, its descriptor parsed.
read_vmcoreinfo_from_sysfs(r, text) ==
    IF ~r.fopen THEN [err |-> "OS", ret |-> EmptyVmcoreinfo]
    ELSE IF ~r.fscanf THEN [err |-> "OTHER", ret |-> EmptyVmcoreinfo]
    ELSE IF ~r.malloc64 THEN [err |-> "NO_MEMORY", ret |-> EmptyVmcoreinfo]
    ELSE IF ~r.read THEN [err |-> "FAULT", ret |-> EmptyVmcoreinfo]
    ELSE IF ~r.size_ok \/ r.n_namesz # 11 \/ ~r.name_ok \/ ~r.descsz_ok THEN
        [err |-> "OTHER", ret |-> EmptyVmcoreinfo]
    ELSE parse_vmcoreinfo(text)

\* What get_fallback_vmcoreinfo meets: uname and its release, and the address
\* of _stext in /proc/kallsyms and in vmlinux. The release of a running
\* kernel is not empty.
UnameReleases == {<<"5", ".", "4">>, Filler(OsreleaseSize - 1), Filler(OsreleaseSize)}

StextAddresses == {<<8, 1, 0>>, <<8, 1, 0, 0>>, ULLONG_MAX}

Fallbacks ==
    [uname : BOOLEAN, release : UnameReleases, kallsyms : BOOLEAN,
     vmlinux : BOOLEAN, kallsyms_addr : StextAddresses,
     elf_addr : StextAddresses]

\* get_fallback_vmcoreinfo
get_fallback_vmcoreinfo(f) ==
    IF ~f.uname THEN [err |-> "OS", ret |-> EmptyVmcoreinfo]
    ELSE IF Len(f.release) >= OsreleaseSize THEN
        [err |-> "OTHER", ret |-> EmptyVmcoreinfo]
    ELSE IF ~f.kallsyms \/ ~f.vmlinux THEN
        [err |-> "OTHER",
         ret |-> [EmptyVmcoreinfo EXCEPT !.osrelease = f.release]]
    ELSE [err |-> "NULL",
          ret |-> [osrelease |-> f.release,
                   kaslr_offset |-> Sub64(f.kallsyms_addr, f.elf_addr)]]

\* A kernel target about to get its vmcoreinfo from one of the three sources.
VmcoreInit ==
    /\ MapIdle /\ BootIdle /\ nt = Idle /\ rl = Idle /\ LaterIdle
    /\ vm \in [status : {"start"}, source : {"note"}, text : Payloads]
          \cup [status : {"start"}, source : {"sysfs"}, text : Payloads,
                sysfs : {GoodSysfsRead}]
          \cup [status : {"start"}, source : {"sysfs"},
                text : {JoinLines(<<KeyOSRELEASE \o <<"5", ".", "4">>>>)},
                sysfs : SysfsReads]
          \cup [status : {"start"}, source : {"fallback"},
                fallback : Fallbacks]

\* The end of a source: the error, or have_vmcoreinfo = true and, at the end
\* of the bootstrap, prog->vmcoreinfo = vmcoreinfo under IS_LINUX_KERNEL.
Sourced(r) ==
    vm' = [status |-> IF r.err = "NULL" THEN "done" ELSE "failed",
           source |-> vm.source, from |-> vm, err |-> r.err,
           vmcoreinfo |-> r.ret]

\* The VMCOREINFO note of the dump is parsed.
NoteVmcoreinfo ==
    /\ vm.status = "start" /\ vm.source = "note"
    /\ Sourced(parse_vmcoreinfo(vm.text))
    /\ UNCHANGED <<map_vars, boot_vars, nt, rl, later_vars>>

\* The note that /sys/kernel/vmcoreinfo names is read and parsed.
SysfsVmcoreinfo ==
    /\ vm.status = "start" /\ vm.source = "sysfs"
    /\ Sourced(read_vmcoreinfo_from_sysfs(vm.sysfs, vm.text))
    /\ UNCHANGED <<map_vars, boot_vars, nt, rl, later_vars>>

\* The vmcoreinfo is made up from uname, /proc/kallsyms and vmlinux.
FallbackVmcoreinfo ==
    /\ vm.status = "start" /\ vm.source = "fallback"
    /\ Sourced(get_fallback_vmcoreinfo(vm.fallback))
    /\ UNCHANGED <<map_vars, boot_vars, nt, rl, later_vars>>

VmcoreNext == NoteVmcoreinfo \/ SysfsVmcoreinfo \/ FallbackVmcoreinfo

SpecVmcore == VmcoreInit /\ [][VmcoreNext]_vars

-----------------------------------------------------------------------------
(* NT_FILE descriptors byte by byte: parse_nt_file *)

\* A descriptor is a sequence of bytes; offset 0 is its first byte. A byte
\* outside it reads as 0 here; that it is read at all is what is recorded.
ByteAt(desc, offset) ==
    IF offset >= 0 /\ offset < Len(desc) THEN desc[offset + 1] ELSE 0

\* sizeof(uint64_t) or sizeof(uint32_t): the size of a word of the note
WordSize(is_64_bit) == IF is_64_bit THEN 8 ELSE 4

\* The word at an offset as the eight bytes of a uint64_t, least significant
\* first (bswap is false: the note is read in host order, little-endian
\* here); a 32-bit word is widened with zeros.
WordAt(desc, offset, is_64_bit) ==
    [k \in 1 .. 8 |-> IF k <= WordSize(is_64_bit)
                      THEN ByteAt(desc, offset + k - 1) ELSE 0]

\* The number eight bytes write; a number of more than three bytes is kept
\* only as larger than every offset and every address used here.
WordValue(word) ==
    word[1] + 256 * word[2] + 65536 * word[3]
        + (IF \A k \in 4 .. 8 : word[k] = 0 THEN 0 ELSE 16777216)

\* word * factor byte by byte, with the carry out of the eighth byte
RECURSIVE MulBytes(_, _, _, _)
MulBytes(word, factor, k, carry) ==
    IF k > 8 THEN [bytes |-> <<>>, carry |-> carry]
    ELSE LET t == word[k] * factor + carry
             rest == MulBytes(word, factor, k + 1, t \div 256)
         IN [bytes |-> <<t % 256>> \o rest.bytes, carry |-> rest.carry]

\* A bug: the product is taken modulo 2^64 and the overflow is not looked at.
mul_overflow_unchecked(count, factor) ==
    [overflow |-> FALSE, paths_offset |-> MulBytes(count, factor, 1, 0).bytes]

\* __builtin_mul_overflow(count, factor, &paths_offset) with a size_t of 64
\* bits: the product modulo 2^64 and whether it overflowed.
mul_overflow(count, factor) ==
    LET r == MulBytes(count, factor, 1, 0) IN
    [overflow |-> r.carry # 0, paths_offset |-> r.bytes]

\* read_in_bounds(p, end, size): (size_t)(end - p) >= size, the size given
\* as eight bytes
read_in_bounds(p, end, size) ==
    /\ \A k \in 4 .. 8 : size[k] = 0
    /\ end - p >= WordValue(size)

\* The size of a word, as eight bytes.
SizeOfWord(is_64_bit) == [k \in 1 .. 8 |-> IF k = 1 THEN WordSize(is_64_bit) ELSE 0]

\* read_u64 / read_u32_into_u64: the bounds check, the word, and the bytes
\* read
read_word(desc, p, is_64_bit) ==
    IF read_in_bounds(p, Len(desc), SizeOfWord(is_64_bit))
    THEN [ok |-> TRUE, word |-> WordAt(desc, p, is_64_bit),
          p |-> p + WordSize(is_64_bit), hi |-> p + WordSize(is_64_bit)]
    ELSE [ok |-> FALSE, word |-> WordAt(desc, 0, FALSE), p |-> p, hi |-> 0]

\* memchr(q, 0, end - q): the offset of the first NUL at or after q, -1 for
\* NULL
RECURSIVE memchr_nul(_, _)
memchr_nul(desc, q) ==
    IF q >= Len(desc) THEN -1
    ELSE IF desc[q + 1] = 0 THEN q
    ELSE memchr_nul(desc, q + 1)

\* read_string(&q, end, &path, &len): the string at q, the q after it and the
\* offset after the last byte looked at
read_string(desc, q) ==
    LET nul == memchr_nul(desc, q) IN
    IF nul < 0
    THEN [ok |-> FALSE, path |-> <<>>, q |-> q,
          hi |-> IF q < Len(desc) THEN Len(desc) ELSE 0]
    ELSE [ok |-> TRUE, path |-> SubSeq(desc, q + 1, nul), q |-> nul + 1,
          hi |-> nul + 1]

Max(a, b) == IF a >= b THEN a ELSE b

\* parse_nt_file up to the loop: the two header words, the size of the
\* entries and its bounds check.
nt_file_header(desc, is_64_bit) ==
    LET c == read_word(desc, 0, is_64_bit)
        s == read_word(desc, c.p, is_64_bit)
        m == mul_overflow(c.word, 3 * WordSize(is_64_bit))
        fail(hi) == [ok |-> FALSE, hi |-> hi, p |-> 0, q |-> 0,
                     count |-> 0, page_size |-> 0]
    IN
    IF ~c.ok THEN fail(0)
    ELSE IF ~s.ok THEN fail(c.hi)
    ELSE IF m.overflow THEN fail(s.hi)
    ELSE IF ~read_in_bounds(s.p, Len(desc), m.paths_offset) THEN fail(s.hi)
    ELSE [ok |-> TRUE, hi |-> s.hi, p |-> s.p,
          q |-> s.p + WordValue(m.paths_offset),
          count |-> WordValue(c.word), page_size |-> WordValue(s.word)]

\* The number of entries the count word of the layouts names, at most.
MaxCount == 2

\* A number as the bytes of a word, least significant first.
Bytes(n, is_64_bit) ==
    [k \in 1 .. WordSize(is_64_bit) |-> IF k = 1 THEN n ELSE 0]

\* A count whose top byte is set: times 24 it is a multiple of 2^64, and as
\* a 32-bit word it is larger than any descriptor.
HugeCount(is_64_bit) ==
    [k \in 1 .. WordSize(is_64_bit) |-> IF k = WordSize(is_64_bit) THEN 32 ELSE 0]

\* A count that fits times 24 and is larger than any descriptor.
LargeCount(is_64_bit) ==
    [k \in 1 .. WordSize(is_64_bit) |-> IF k = 3 THEN 1 ELSE 0]

RECURSIVE EntryBytes(_, _)
EntryBytes(es, is_64_bit) ==
    IF es = <<>> THEN <<>>
    ELSE Bytes(Head(es)[1], is_64_bit) \o Bytes(Head(es)[2], is_64_bit)
             \o Bytes(Head(es)[3], is_64_bit)
             \o EntryBytes(Tail(es), is_64_bit)

\* The entries of the layouts: (start, end, file offset in pages).
EntryLists ==
    {<<>>,
     <<<<0, 1, 0>>, <<1, 2, 1>>>>,
     <<<<1, 0, 0>>, <<0, 1, 0>>>>,
     <<<<1, 1, 0>>, <<0, 1, 0>>>>}

\* The bytes after the entries: "/a" and "/b" with and without their NULs.
PathBytes ==
    {<<>>, <<47, 97, 0>>, <<47, 97, 0, 47, 97, 0>>, <<47, 97, 0, 47, 98>>}

\* The count words of the layouts.
CountWords(is_64_bit) ==
    {Bytes(n, is_64_bit) : n \in 0 .. MaxCount}
        \cup {HugeCount(is_64_bit), LargeCount(is_64_bit)}

Layouts ==
    UNION {{[is_64_bit |-> w,
             desc |-> c \o Bytes(1, w) \o EntryBytes(es, w) \o ps] :
               es \in EntryLists, ps \in PathBytes, c \in CountWords(w)} :
           w \in BOOLEAN}

\* Every layout cut short at every length.
NtDescriptors ==
    UNION {{[is_64_bit |-> l.is_64_bit, desc |-> SubSeq(l.desc, 1, n)] :
               n \in 0 .. Len(l.desc)} : l \in Layouts}

\* parse_nt_file is called on a descriptor and an empty table; hi is the
\* offset after the last byte of the descriptor that was read.
NtInit ==
    /\ MapIdle /\ BootIdle /\ vm = Idle /\ rl = Idle /\ LaterIdle
    /\ \E d \in NtDescriptors :
        nt = [status |-> "start", desc |-> d.desc, is_64_bit |-> d.is_64_bit,
              hi |-> 0, p |-> 0, q |-> 0, i |-> 0, count |-> 0,
              page_size |-> 0, mappings |-> <<>>, capacity |-> 0,
              ret |-> "none"]

\* The header words and the bounds check of the entries.
NtHeader ==
    /\ nt.status = "start"
    /\ LET h == nt_file_header(nt.desc, nt.is_64_bit) IN
       nt' = IF h.ok
             THEN [nt EXCEPT !.status = "loop", !.hi = h.hi, !.p = h.p,
                             !.q = h.q, !.count = h.count,
                             !.page_size = h.page_size]
             ELSE [nt EXCEPT !.status = "returned", !.hi = h.hi,
                             !.ret = "ELF_FORMAT"]
    /\ UNCHANGED <<map_vars, boot_vars, vm, rl, later_vars>>

\* One turn of the loop: three words read without a check, the path, and
\* the entry handed to append_file_mapping.
NtLoop ==
    /\ nt.status = "loop"
    /\ nt.i < nt.count
    /\ LET w == WordSize(nt.is_64_bit)
           word(k) == WordValue(WordAt(nt.desc, nt.p + k * w, nt.is_64_bit))
           s == read_string(nt.desc, nt.q)
           e == [start |-> word(0), end |-> word(1), file_offset |-> word(2),
                 path |-> s.path]
           read == [nt EXCEPT !.p = nt.p + 3 * w,
                              !.hi = Max(Max(nt.hi, nt.p + 3 * w), s.hi),
                              !.q = s.q, !.i = nt.i + 1]
       IN
       IF ~s.ok THEN
           nt' = [read EXCEPT !.status = "returned", !.ret = "ELF_FORMAT"]
       ELSE
           \E resize_ok \in BOOLEAN, malloc_ok \in BOOLEAN :
               /\ ~needs_resize(e, nt.page_size, nt.mappings, nt.capacity)
                      => resize_ok
               /\ ~needs_malloc(e, nt.page_size, nt.mappings, nt.capacity,
                                resize_ok) => malloc_ok
               /\ LET r == nt_file_entry(e, nt.page_size, nt.mappings,
                                         nt.capacity, resize_ok, malloc_ok)
                      stored == [read EXCEPT !.mappings = r.mappings,
                                             !.capacity = r.capacity]
                  IN
                  \/ /\ r.ret = "continue"
                     /\ nt' = stored
                  \/ /\ r.ret \notin {"continue", "UB"}
                     /\ nt' = [stored EXCEPT !.status = "returned",
                                             !.ret = r.ret]
                  \* the store to slot -1 of the empty table
                  \/ /\ r.ret = "UB"
                     /\ \/ nt' = stored
                        \/ nt' = [stored EXCEPT !.status = "crashed"]
    /\ UNCHANGED <<map_vars, boot_vars, vm, rl, later_vars>>

\* The loop is over: return NULL.
NtReturn ==
    /\ nt.status = "loop"
    /\ nt.i >= nt.count
    /\ nt' = [nt EXCEPT !.status = "returned", !.ret = "NULL"]
    /\ UNCHANGED <<map_vars, boot_vars, vm, rl, later_vars>>

NtNext == NtHeader \/ NtLoop \/ NtReturn

SpecNt == NtInit /\ [][NtNext]_vars

-----------------------------------------------------------------------------
(* Relocation hooks *)

\* a < b and a <= b for two 64-bit numbers
Lt64(a, b) ==
    LET pa == Pad16(a)
        pb == Pad16(b)
        d == {i \in 1 .. 16 : pa[i] # pb[i]}
    IN d # {} /\ LET i == CHOOSE i \in d : \A j \in d : i <= j IN pa[i] < pb[i]

Le64(a, b) == a = b \/ Lt64(a, b)

\* struct drgn_symbol as the symbol index hands it to the hook: the address
\* is the one the DWARF declares.
Symbol(name, address) ==
    [name |-> name, address |-> address, is_enumerator |-> FALSE,
     qualified_type |-> "int", little_endian |-> TRUE, svalue |-> 0]

\* What a hook returns: the error, the symbol and the program it leaves, and
\* what it looked at on the way.
Relocated(err, sym, pr, consulted) ==
    [err |-> err, sym |-> sym, prog |-> pr, consulted |-> consulted]

\* The first index of a sequence that satisfies a test, 0 if there is none.
First(s, Test(_)) ==
    IF \E i \in 1 .. Len(s) : Test(s[i])
    THEN CHOOSE i \in 1 .. Len(s) : Test(s[i]) /\ \A j \in 1 .. i - 1 : ~Test(s[j])
    ELSE 0

\* A bug: the module branch is for relocatable objects only; every other
\* object is relocated like vmlinux.
is_vmlinux_unless_rel(e_type) == e_type # "ET_REL"

\* ehdr->e_type == ET_EXEC
is_vmlinux(e_type) == e_type = "ET_EXEC"

\* drgn_error_libelf(): the error that wraps the ELF parser's
drgn_error_libelf == "LIBELF"

\* A bug: the error of a failed read of memory is turned into a lookup error.
propagated_as_lookup(fault) == "LOOKUP"

\* if (err) return err: the error of find_module and of find_section_address
\* is returned as it is
propagated(fault) == fault.code

\* kernel_relocation_hook. `fault.at` names the read that fails, if it is
\* reached: of the ELF file (gelf_getehdr, elf_getshdrstrndx, read_elf_section
\* of .modinfo or of .symtab, the section of the symbol) or of the memory of
\* the target (in find_module, in find_section_address), whose error,
\* `fault.code`, is returned as it is.
kernel_relocation_hook(pr, elf, modules, sym, fault) ==
    LET fail(code, seen) == Relocated(code, sym, pr, seen)
        named(s) == s.st_value = sym.address
        symbol == First(elf.symtab.syms, named)
        loaded(m) == m.name = elf.modinfo.name
        mod == First(modules, loaded)
        section(a) == a.name = elf.symtab.syms[symbol].scnname
        attr == First(modules[mod].sect_attrs, section)
    IN
    IF fault.at = "gelf_getehdr" THEN fail(drgn_error_libelf, {})
    ELSE IF is_vmlinux(elf.e_type) THEN
        Relocated("NULL",
                  [sym EXCEPT !.address =
                      Add64(sym.address, pr.vmcoreinfo.kaslr_offset)],
                  pr, {})
    ELSE IF fault.at = "elf_getshdrstrndx" THEN fail(drgn_error_libelf, {})
    ELSE IF ~elf.modinfo.present THEN fail("LOOKUP", {"sections"})
    ELSE IF ~elf.symtab.present THEN fail("LOOKUP", {"sections"})
    \* get_module_name
    ELSE IF fault.at = "read_modinfo" THEN
        fail(drgn_error_libelf, {"sections", ".modinfo"})
    ELSE IF elf.modinfo.name = "" THEN fail("LOOKUP", {"sections", ".modinfo"})
    \* get_symbol_section_name
    ELSE IF fault.at = "read_symtab" THEN
        fail(drgn_error_libelf, {"sections", ".modinfo", ".symtab"})
    ELSE IF symbol = 0 THEN fail("LOOKUP", {"sections", ".modinfo", ".symtab"})
    ELSE IF fault.at = "symbol_section" THEN
        fail(drgn_error_libelf, {"sections", ".modinfo", ".symtab"})
    \* find_module
    ELSE IF fault.at = "find_module" THEN
        fail(propagated(fault), {"sections", ".modinfo", ".symtab", "modules"})
    ELSE IF mod = 0 THEN
        fail("LOOKUP", {"sections", ".modinfo", ".symtab", "modules"})
    \* find_section_address
    ELSE IF fault.at = "find_section_address" THEN
        fail(propagated(fault), {"sections", ".modinfo", ".symtab", "modules"})
    ELSE IF attr = 0 THEN
        fail("LOOKUP", {"sections", ".modinfo", ".symtab", "modules"})
    ELSE Relocated("NULL",
                   [sym EXCEPT !.address =
                       Add64(sym.address, modules[mod].sect_attrs[attr].address)],
                   pr, {"sections", ".modinfo", ".symtab", "modules"})

\* A bug: the file offset is stored in the symbol before a mapping is found.
userspace_store_early(sym, file_offset) == [sym EXCEPT !.address = file_offset]

\* The symbol while userspace_relocation_hook looks for a mapping: file_offset
\* is a local.
userspace_store(sym, file_offset) == sym

\* A bug: the file offset of the mapping is not taken off.
userspace_address_no_offset(mapping, file_offset) ==
    Add64(mapping.start, file_offset)

\* mapping->start + file_offset - mapping->file_offset
userspace_address(mapping, file_offset) ==
    Sub64(Add64(mapping.start, file_offset), mapping.file_offset)

\* A bug: the ELF handle of the mapping is not compared.
mapping_holds_any_elf(mapping, elf, file_offset) ==
    /\ Le64(mapping.file_offset, file_offset)
    /\ Lt64(file_offset,
            Add64(mapping.file_offset, Sub64(mapping.end, mapping.start)))

\* mapping->elf == elf && mapping->file_offset <= file_offset &&
\* file_offset < mapping->file_offset + mapping_size
mapping_holds(mapping, elf, file_offset) ==
    /\ mapping.elf = elf.id
    /\ Le64(mapping.file_offset, file_offset)
    /\ Lt64(file_offset,
            Add64(mapping.file_offset, Sub64(mapping.end, mapping.start)))

\* userspace_relocation_hook. `fault.at` names the read of the ELF file that
\* fails: elf_getphdrnum, or gelf_getphdr of the first header.
userspace_relocation_hook(pr, elf, sym, fault) ==
    LET holds(ph) ==
            /\ ph.p_type = "PT_LOAD"
            /\ Le64(ph.p_vaddr, sym.address)
            /\ Lt64(sym.address, Add64(ph.p_vaddr, ph.p_memsz))
        i == First(elf.phdrs, holds)
        file_offset ==
            Sub64(Add64(elf.phdrs[i].p_offset, sym.address), elf.phdrs[i].p_vaddr)
        covers(m) == mapping_holds(m, elf, file_offset)
        k == First(pr.mappings, covers)
    IN
    IF fault.at = "elf_getphdrnum" THEN
        Relocated(drgn_error_libelf, sym, pr, {})
    ELSE IF fault.at = "gelf_getphdr" /\ elf.phdrs # <<>> THEN
        Relocated(drgn_error_libelf, sym, pr, {})
    ELSE IF i = 0 THEN Relocated("LOOKUP", sym, pr, {"phdrs"})
    ELSE IF k = 0 THEN
        Relocated("LOOKUP", userspace_store(sym, file_offset), pr,
                  {"phdrs", "mappings"})
    ELSE Relocated("NULL",
                   [sym EXCEPT !.address =
                       userspace_address(pr.mappings[k], file_offset)],
                   pr, {"phdrs", "mappings"})

\* The sessions of a kernel target: the program, the ELF file the symbols
\* come from, and the module list in the memory of the target.
KernelElfs ==
    [id : {"E"}, e_type : {"ET_EXEC", "ET_REL", "ET_DYN"},
     modinfo : {[present |-> FALSE, name |-> ""], [present |-> TRUE, name |-> ""],
                [present |-> TRUE, name |-> "m"]},
     symtab : {[present |-> FALSE, syms |-> <<>>],
               [present |-> TRUE,
                syms |-> <<[st_value |-> <<4, 0>>, scnname |-> ".data"],
                           [st_value |-> <<2, 0>>, scnname |-> ".text"]>>]}]

ModuleLists ==
    {<<>>,
     <<[name |-> "n", sect_attrs |-> <<[name |-> ".text", address |-> <<3, 0, 0, 0>>]>>],
       [name |-> "m",
        sect_attrs |-> <<[name |-> ".data", address |-> <<2, 0, 0, 0>>],
                         [name |-> ".text", address |-> <<1, 0, 0, 0>>]>>]>>,
     <<[name |-> "m", sect_attrs |-> <<[name |-> ".text", address |-> ULLONG_MAX]>>],
       [name |-> "m", sect_attrs |-> <<[name |-> ".text", address |-> <<1, 0, 0, 0>>]>>]>>}

KernelPrograms ==
    [mappings : {<<>>},
     vmcoreinfo : [osrelease : {<<"5", ".", "4">>},
                   kaslr_offset : {<<1, 10, 0, 0, 0, 0, 0>>, ULLONG_MAX}],
     cleanups : {<<"dindex">>}]

KernelSymbols == {Symbol("f", <<2, 0>>), Symbol("g", <<4, 0>>), Symbol("h", <<6, 0>>)}

\* The reads of the ELF file and of the memory of the target that can fail.
ElfReads ==
    {"gelf_getehdr", "elf_getshdrstrndx", "read_modinfo", "read_symtab",
     "symbol_section", "elf_getphdrnum", "gelf_getphdr"}

MemoryReads == {"find_module", "find_section_address"}

Fault(at, code) == [at |-> at, code |-> code]

NoFault == Fault("none", "NULL")

\* A failed read of memory is LOOKUP (no segment holds the address) or FAULT
\* (the segment's file is too short).
KernelFaults ==
    {NoFault}
        \cup {Fault(at, drgn_error_libelf) :
                 at \in ElfReads \ {"elf_getphdrnum", "gelf_getphdr"}}
        \cup {Fault(at, code) : at \in MemoryReads, code \in {"LOOKUP", "FAULT"}}

\* The sessions of a user-space target: the mapping table with the ELF file
\* each mapping was opened as, and the program headers of the symbol's file.
Phdr(p_type, p_offset, p_vaddr, p_memsz) ==
    [p_type |-> p_type, p_offset |-> p_offset, p_vaddr |-> p_vaddr,
     p_memsz |-> p_memsz]

UserElfs ==
    [id : {"E"},
     phdrs : {<<>>,
              <<Phdr("PT_NOTE", <<>>, <<1, 0, 0, 0>>, <<3, 0, 0, 0>>),
                Phdr("PT_LOAD", <<>>, <<1, 0, 0, 0>>, <<3, 0, 0, 0>>)>>,
              <<Phdr("PT_LOAD", <<1, 0, 0, 0>>, <<2, 0, 0, 0>>, <<1, 0, 0, 0>>),
                Phdr("PT_LOAD", <<>>, <<1, 0, 0, 0>>, <<3, 0, 0, 0>>)>>,
              <<Phdr("PT_LOAD", <<>>, <<15, 15, 15, 15, 15, 15, 15, 15, 15, 15, 15, 15, 15, 0, 0, 0>>, <<2, 0, 0, 0>>)>>}]

Mapped(start, end, file_offset, elf) ==
    [start |-> start, end |-> end, file_offset |-> file_offset, elf |-> elf]

UserPrograms ==
    [mappings : {<<>>,
                 <<Mapped(<<7, 15, 0, 0, 0, 0>>, <<7, 15, 3, 0, 0, 0>>, <<>>, "E")>>,
                 <<Mapped(<<4, 0, 0, 0, 0, 0>>, <<4, 0, 3, 0, 0, 0>>, <<>>, "null"),
                   Mapped(<<5, 0, 0, 0, 0, 0>>, <<5, 0, 3, 0, 0, 0>>, <<>>, "F"),
                   Mapped(<<7, 15, 0, 0, 0, 0>>, <<7, 15, 1, 0, 0, 0>>, <<1, 0, 0, 0>>, "E"),
                   Mapped(<<7, 15, 1, 0, 0, 0>>, <<7, 15, 3, 0, 0, 0>>, <<1, 0, 0, 0>>, "E")>>,
                 <<Mapped(<<15, 15, 15, 15, 15, 15, 15, 15, 15, 15, 15, 15, 15, 0, 0, 0>>, <<15, 15, 15, 15, 15, 15, 15, 15, 15, 15, 15, 15, 15, 8, 0, 0>>,
                          <<15, 15, 15, 15, 15, 15, 15, 15, 15, 15, 15, 15, 15, 12, 0, 0>>, "E")>>},
     vmcoreinfo : {EmptyVmcoreinfo},
     cleanups : {<<"dindex">>}]

UserSymbols ==
    {Symbol("f", <<2, 1, 0, 0>>), Symbol("g", <<1, 0, 0, 0>>), Symbol("h", <<5, 0, 0, 0>>),
     Symbol("w", <<15, 15, 15, 15, 15, 15, 15, 15, 15, 15, 15, 15, 15, 1, 0, 0>>)}

UserFaults ==
    {NoFault, Fault("elf_getphdrnum", drgn_error_libelf),
     Fault("gelf_getphdr", drgn_error_libelf)}

NoCall == [hook |-> "none"]

\* A session after its bootstrap: no symbol was looked up yet. `found` keeps,
\* per symbol name, the address its first successful relocation gave.
RelocInit ==
    /\ MapIdle /\ BootIdle /\ vm = Idle /\ nt = Idle /\ LaterIdle
    /\ rl \in {s \in [status : {"ready"}, hook : {"kernel"},
                       prog : KernelPrograms, elf : KernelElfs,
                       modules : ModuleLists, found : {<<>>}, last : {NoCall}] :
                  \* the files that lack a section are relocatable ones, the
                  \* second offset is tried on vmlinux
                  /\ s.elf.e_type # "ET_REL" =>
                         s.elf.modinfo.name = "m" /\ s.elf.symtab.present
                  /\ s.elf.e_type = "ET_EXEC" => s.modules = <<>>
                  /\ s.elf.e_type # "ET_EXEC" =>
                         s.prog.vmcoreinfo.kaslr_offset # ULLONG_MAX}
          \cup [status : {"ready"}, hook : {"userspace"}, prog : UserPrograms,
                elf : UserElfs, modules : {<<>>}, found : {<<>>},
                last : {NoCall}]

\* The symbol index calls prog->relocation_hook on a symbol it found.
Called(sym, fault, r) ==
    rl' = [rl EXCEPT
              !.prog = r.prog,
              !.found = IF r.err = "NULL"
                           /\ ~\E i \in 1 .. Len(rl.found) :
                                  rl.found[i].name = sym.name
                        THEN Append(rl.found,
                                    [name |-> sym.name, address |-> r.sym.address])
                        ELSE rl.found,
              !.last = [hook |-> rl.hook, sym |-> sym, fault |-> fault,
                        err |-> r.err, out |-> r.sym, before |-> rl.prog,
                        consulted |-> r.consulted]]

KernelRelocate ==
    /\ rl.status = "ready" /\ rl.hook = "kernel"
    /\ \E sym \in KernelSymbols, fault \in KernelFaults :
        Called(sym, fault,
               kernel_relocation_hook(rl.prog, rl.elf, rl.modules, sym, fault))
    /\ UNCHANGED <<map_vars, boot_vars, vm, nt, later_vars>>

UserspaceRelocate ==
    /\ rl.status = "ready" /\ rl.hook = "userspace"
    /\ \E sym \in UserSymbols, fault \in UserFaults :
        Called(sym, fault,
               userspace_relocation_hook(rl.prog, rl.elf, sym, fault))
    /\ UNCHANGED <<map_vars, boot_vars, vm, nt, later_vars>>

RelocNext == KernelRelocate \/ UserspaceRelocate

SpecReloc == RelocInit /\ [][RelocNext]_vars

-----------------------------------------------------------------------------
(* drgn_program_read_c_string *)

\* bytes of target memory that a segment holds from the address on
MaxStr == 3

\* Target memory from the address on, one byte per offset, up to the end of
\* the segment that holds the address; no segment holds the offsets after it.
StrBytes == {0, 65, 66}
Memories == UNION {[1..n -> StrBytes] : n \in 0..MaxStr}
MaxSizes == 0..(MaxStr + 1)

\* drgn_memory_reader_read(prog->reader, &str[size], address, 1, physical),
\* address being the call's address plus offset
read_one_byte(memory, offset) ==
    IF offset < Len(memory)
    THEN [err |-> "NULL", byte |-> memory[offset + 1]]
    ELSE [err |-> "FAULT", byte |-> 0]

\* A bug: the byte at offset max_size is read as well.
may_read_at_max(size, max_size) == size <= max_size

\* if (size < max_size)
may_read(size, max_size) == size < max_size

\* if (size >= capacity)
must_grow(size, capacity) == size >= capacity

\* str[size++] = byte. str is the bytes stored so far, str[0] to
\* str[size - 1]; the rest of the allocation is uninitialized. A store outside
\* the allocation is undefined and leaves the model's buffer as it is.
store_byte(str, capacity, byte) ==
    IF Len(str) < capacity THEN Append(str, byte) ELSE str

Write(index, capacity) == [index |-> index, capacity |-> capacity]

StrInit ==
    /\ MapIdle /\ BootIdle
    /\ vm = Idle /\ nt = Idle /\ rl = Idle
    /\ kf = Idle /\ fo = Idle /\ cu = Idle /\ ml = Idle
    /\ \E memory \in Memories, max_size \in MaxSizes :
        cs = [status |-> "called", memory |-> memory, max_size |-> max_size,
              size |-> 0, capacity |-> 0, str |-> <<>>, offset |-> 0,
              reads |-> <<>>, writes |-> <<>>, alloc_failed |-> FALSE,
              err |-> "NULL", ret_set |-> FALSE]

\* free(str); return err;
StrFail(err, alloc_failed) ==
    [cs EXCEPT !.status = "returned", !.err = err, !.str = <<>>,
               !.capacity = 0, !.alloc_failed = alloc_failed]

\* size_t size = 0, capacity = 1; str = malloc(capacity);
StrMalloc ==
    /\ cs.status = "called"
    /\ \E malloc_ok \in BOOLEAN :
        cs' = IF malloc_ok
              THEN [cs EXCEPT !.status = "loop", !.capacity = 1]
              ELSE StrFail("ENOMEM", TRUE)
    /\ UNCHANGED <<map_vars, boot_vars, vm, nt, rl, kf, fo, cu, ml>>

\* One iteration of for (;;). capacity *= 2 is a size_t product; it stays
\* far below 2^64 for every string the model reads.
StrLoop ==
    /\ cs.status = "loop"
    /\ \E resize_ok \in BOOLEAN, survives \in BOOLEAN :
        LET grow == must_grow(cs.size, cs.capacity)
            capacity == IF grow THEN cs.capacity * 2 ELSE cs.capacity
            r == read_one_byte(cs.memory, cs.offset)
            reading == may_read(cs.size, cs.max_size)
            byte == IF reading THEN r.byte ELSE 0
            inside == cs.size < capacity
        IN
        cs' =
            IF grow /\ ~resize_ok THEN StrFail("ENOMEM", TRUE)
            ELSE IF reading /\ r.err # "NULL"
            THEN [StrFail(r.err, FALSE) EXCEPT
                    !.reads = Append(cs.reads, cs.offset)]
            ELSE [cs EXCEPT
                    !.capacity = capacity,
                    !.str = store_byte(cs.str, capacity, byte),
                    !.size = cs.size + 1,
                    !.writes = Append(cs.writes, Write(cs.size, capacity)),
                    !.reads = IF reading THEN Append(cs.reads, cs.offset)
                              ELSE cs.reads,
                    !.offset = IF reading /\ byte # 0 THEN cs.offset + 1
                               ELSE cs.offset,
                    !.status = IF ~inside /\ ~survives THEN "crashed"
                               ELSE IF reading /\ byte # 0 THEN "loop"
                               ELSE "break"]
    /\ UNCHANGED <<map_vars, boot_vars, vm, nt, rl, kf, fo, cu, ml>>

\* resize_array(&str, size); *ret = str; return NULL;
\* A failed resize_array leaves str and its allocation as they are.
StrReturn ==
    /\ cs.status = "break"
    /\ \E resize_ok \in BOOLEAN :
        LET capacity == IF resize_ok THEN cs.size ELSE cs.capacity IN
        cs' = [cs EXCEPT !.status = "returned", !.ret_set = TRUE,
                         !.capacity = capacity]
    /\ UNCHANGED <<map_vars, boot_vars, vm, nt, rl, kf, fo, cu, ml>>

StrNext == StrMalloc \/ StrLoop \/ StrReturn

SpecStr == StrInit /\ [][StrNext]_vars

-----------------------------------------------------------------------------
(* Debug-file discovery: open_kernel_files and open_userspace_files *)

\* entries that fts_read returns during one call of open_kernel_files
MaxFiles == 6

vmlinux_paths ==
    <<"/usr/lib/debug/lib/modules/%s/vmlinux", "/boot/vmlinux-%s",
      "/lib/modules/%s/build/vmlinux">>

module_paths ==
    <<"/usr/lib/debug/lib/modules/%s/kernel", "/lib/modules/%s/kernel">>

\* File names are sequences of characters.
module_extensions ==
    <<(<<".", "k", "o", ".", "d", "e", "b", "u", "g">>), (<<".", "k", "o">>)>>

max_no_symbols == 5

\* fts_name_endswith(ent, suffix)
fts_name_endswith(fts_name, suffix) ==
    /\ Len(fts_name) >= Len(suffix)
    /\ SubSeq(fts_name, Len(fts_name) - Len(suffix) + 1, Len(fts_name))
           = suffix

\* What drgn_dwarf_index_open can make of a vmlinux or of a module.
KernelOpenOutcomes == {"ok", "ENOENT", "MISSING_DEBUG", "OS"}

\* What fts_read can return for a file of the tree: fts_info, the name, what
\* stat makes of fts_accpath and what drgn_dwarf_index_open makes of it.
\* FTS_F is a regular file and FTS_D a directory; FTS_NSOK is any file that
\* fts_read did not stat.
FtsNames ==
    {<<"a", ".", "k", "o">>, <<"a", ".", "k", "o", ".", "d", "e", "b", "u", "g">>,
     <<"k", "o">>}

FtsEntries ==
    {e \in [fts_info : {"FTS_F", "FTS_NSOK", "FTS_D"}, fts_name : FtsNames,
            st_mode : {"S_IFREG", "S_IFDIR", "failed"},
            open : {"ok", "MISSING_DEBUG", "OS"}] :
        /\ e.fts_info = "FTS_F" => e.st_mode = "S_IFREG"
        /\ e.fts_info = "FTS_D" => e.st_mode = "S_IFDIR"}

NoFtsEntry ==
    [fts_info |-> "none", fts_name |-> <<>>, st_mode |-> "failed",
     open |-> "ok"]

Line(fmt, arg) == [fmt |-> fmt, arg |-> arg]

\* A bug: a file with the suffix is opened whatever fts_info says.
skipped_by_suffix_only(ent, extension) ==
    ~fts_name_endswith(ent.fts_name, extension)

\* the two `continue`s at the head of the fts_read loop
skipped(ent, extension) ==
    \/ (ent.fts_info # "FTS_F" /\ ent.fts_info # "FTS_NSOK")
    \/ ~fts_name_endswith(ent.fts_name, extension)
    \/ (ent.fts_info = "FTS_NSOK" /\ ent.st_mode # "S_IFREG")

\* A bug: every module without debug information is named.
names_module_always(no_symbols) == TRUE

\* if (no_symbols < max_no_symbols)
names_module(no_symbols) == no_symbols < max_no_symbols

\* A bug: the next root is walked although modules have been found.
next_root_always(i, found_modules) == i <= Len(module_paths)

\* i < ARRAY_SIZE(module_paths) && !found_modules, i counted from 1
next_root(i, found_modules) == i <= Len(module_paths) /\ ~found_modules

\* What open_kernel_files writes for a module without debug information.
missing_debug_lines(no_symbols, ent, extension) ==
    (IF no_symbols = 0
     THEN <<Line("missing debug information for modules:\n", <<>>)>>
     ELSE <<>>)
    \o (IF names_module(no_symbols)
        THEN <<Line("%.*s\n",
                    SubSeq(ent.fts_name, 1,
                           Len(ent.fts_name) - Len(extension)))>>
        ELSE <<>>)

\* if (verbose) { ... } return NULL; at the end of open_kernel_files
final_lines(found_modules, no_symbols) ==
    (IF ~found_modules
     THEN <<Line("could not find kernel modules\n", <<>>)>>
     ELSE <<>>)
    \o (IF no_symbols > max_no_symbols
        THEN <<Line("... %zu more\n", <<no_symbols - max_no_symbols>>)>>
        ELSE <<>>)

\* Tables handed to open_userspace_files: what counts is each entry's path.
DiscoveryTables ==
    UNION {[1..n -> {FileMapping(0, 1, 0, PathPtr(p, "heap")) : p \in PathNames}]
           : n \in 0..MaxEntries}

FilesInit ==
    /\ MapIdle /\ BootIdle
    /\ vm = Idle /\ nt = Idle /\ rl = Idle
    /\ cs = Idle /\ fo = Idle /\ cu = Idle /\ ml = Idle
    /\ \E kernel \in BOOLEAN, verbose \in BOOLEAN, table \in DiscoveryTables :
        /\ kernel => table = <<>>
        /\ ~kernel => ~verbose
        /\ kf = [status |-> IF kernel THEN "vmlinux" ELSE "userspace",
                 verbose |-> verbose, i |-> 1,
                 found_vmlinux |-> FALSE, found_modules |-> FALSE,
                 no_symbols |-> 0, err |-> "NULL", message |-> "",
                 candidates |-> <<>>, roots |-> <<>>, walked |-> <<>>,
                 files |-> 0, ent |-> NoFtsEntry, opened |-> FALSE,
                 missing |-> 0, stderr |-> <<>>,
                 table |-> table, outcome |-> <<>>, elfs |-> <<>>]

\* return err, or return NULL with err = "NULL"
FilesReturn(state, err, message) ==
    [state EXCEPT !.status = "returned", !.err = err, !.message = message]

\* open_userspace_files(dindex, mappings, num_mappings)
OpenUserspace ==
    /\ kf.status = "userspace"
    /\ \E outcome \in [1..Len(kf.table) -> OpenOutcomes] :
        LET r == open_userspace_files(kf.table, outcome) IN
        kf' = FilesReturn([kf EXCEPT !.outcome = outcome, !.elfs = r.elfs],
                          r.err,
                          IF r.err = "MISSING_DEBUG"
                          THEN "no debug information found" ELSE "")
    /\ UNCHANGED <<map_vars, boot_vars, vm, nt, rl, cs, fo, cu, ml>>

\* A bug: a vmlinux that does not exist is remembered as well.
remember_vmlinux_any(found_vmlinux, r) == TRUE

\* if (err->code == DRGN_ERROR_MISSING_DEBUG) found_vmlinux = true;
remember_vmlinux(found_vmlinux, r) == found_vmlinux \/ r = "MISSING_DEBUG"

\* One iteration of the loop over vmlinux_paths and, when it was the last,
\* the test of i that follows the loop.
KernelVmlinux ==
    /\ kf.status = "vmlinux"
    /\ \E r \in KernelOpenOutcomes :
        LET tried == [kf EXCEPT
                        !.candidates = Append(kf.candidates,
                                              [path |-> vmlinux_paths[kf.i],
                                               open |-> r])]
            found_vmlinux == remember_vmlinux(kf.found_vmlinux, r)
            next == [tried EXCEPT !.i = kf.i + 1,
                                  !.found_vmlinux = found_vmlinux]
        IN
        kf' = IF r = "ok" THEN [tried EXCEPT !.status = "roots", !.i = 1]
              ELSE IF r \notin {"ENOENT", "MISSING_DEBUG"}
              THEN FilesReturn(tried, r, "")
              ELSE IF next.i <= Len(vmlinux_paths) THEN next
              ELSE FilesReturn(next, "MISSING_DEBUG",
                       IF found_vmlinux
                       THEN "vmlinux does not have debug information"
                       ELSE "could not find vmlinux")
    /\ UNCHANGED <<map_vars, boot_vars, vm, nt, rl, cs, fo, cu, ml>>

\* The head of the loop over module_paths: snprintf and fts_open.
KernelRoot ==
    /\ kf.status = "roots"
    /\ next_root(kf.i, kf.found_modules)
    /\ \E r \in {"ok", "ENOENT", "EACCES"} :
        LET tried == [kf EXCEPT
                        !.roots = Append(kf.roots,
                                         [path |-> module_paths[kf.i],
                                          fts_open |-> r,
                                          found_modules |-> kf.found_modules])]
        IN
        kf' = IF r = "ok"
              THEN [tried EXCEPT !.status = "walk",
                                 !.walked = Append(kf.walked, kf.i),
                                 !.ent = NoFtsEntry, !.opened = FALSE]
              ELSE IF r = "ENOENT" THEN [tried EXCEPT !.i = kf.i + 1]
              ELSE FilesReturn(tried, "OS", "fts_open")
    /\ UNCHANGED <<map_vars, boot_vars, vm, nt, rl, cs, fo, cu, ml>>

\* One iteration of while ((ent = fts_read(fts))).
KernelWalk ==
    /\ kf.status = "walk"
    /\ kf.files < MaxFiles
    /\ \E ent \in FtsEntries :
        LET read == [kf EXCEPT !.files = kf.files + 1, !.ent = ent,
                               !.opened = FALSE]
            extension == module_extensions[kf.i]
            opened == [read EXCEPT !.found_modules = TRUE, !.opened = TRUE]
        IN
        \* nothing is drawn for the opening of a file that is not opened
        /\ skipped(ent, extension) => ent.open = "ok"
        /\ kf' =
              IF skipped(ent, extension) THEN read
              ELSE IF ent.open = "ok" THEN opened
              ELSE IF ent.open = "MISSING_DEBUG" THEN
                  [opened EXCEPT
                     !.missing = kf.missing + 1,
                     !.no_symbols = IF kf.verbose THEN kf.no_symbols + 1
                                    ELSE kf.no_symbols,
                     !.stderr = IF kf.verbose
                                THEN kf.stderr
                                     \o missing_debug_lines(kf.no_symbols, ent,
                                                            extension)
                                ELSE kf.stderr]
              ELSE FilesReturn(opened, ent.open, "")
    /\ UNCHANGED <<map_vars, boot_vars, vm, nt, rl, cs, fo, cu, ml>>

\* fts_read returns NULL: the test of errno, fts_close, the next root.
KernelWalkEnd ==
    /\ kf.status = "walk"
    /\ \E errno \in {"0", "EIO"} :
        kf' = IF errno # "0" THEN FilesReturn(kf, "OS", "fts_read")
              ELSE [kf EXCEPT !.status = "roots", !.i = kf.i + 1]
    /\ UNCHANGED <<map_vars, boot_vars, vm, nt, rl, cs, fo, cu, ml>>

\* The loop over module_paths is over: the last lines and return NULL.
KernelFinish ==
    /\ kf.status = "roots"
    /\ ~next_root(kf.i, kf.found_modules)
    /\ kf' = FilesReturn([kf EXCEPT
                            !.stderr = IF kf.verbose
                                       THEN kf.stderr
                                            \o final_lines(kf.found_modules,
                                                           kf.no_symbols)
                                       ELSE kf.stderr],
                         "NULL", "")
    /\ UNCHANGED <<map_vars, boot_vars, vm, nt, rl, cs, fo, cu, ml>>

FilesNext ==
    \/ OpenUserspace
    \/ KernelVmlinux
    \/ KernelRoot
    \/ KernelWalk
    \/ KernelWalkEnd
    \/ KernelFinish

SpecFiles == FilesInit /\ [][FilesNext]_vars

-----------------------------------------------------------------------------
(* drgn_program_find_object *)

\* calls of drgn_program_find_object on one program
MaxCalls == 2

\* A qualified type: for an enum type, whether it is signed.
QualifiedType(name, is_signed) == [type |-> name, is_signed |-> is_signed]

\* struct drgn_symbol as the symbol index fills it.
IndexSymbol(qualified_type, is_enumerator, svalue, uvalue, address, little_endian) ==
    [qualified_type |-> qualified_type, is_enumerator |-> is_enumerator,
     svalue |-> svalue, uvalue |-> uvalue, address |-> address,
     little_endian |-> little_endian]

NoSymbol == IndexSymbol(QualifiedType("void", FALSE), FALSE, 0, 0, 0, FALSE)

\* What the debugging information holds under a name: nothing, an enumerator
\* of a signed or of an unsigned enum, or a variable at its DWARF address.
Enumerators ==
    {IndexSymbol(QualifiedType(t[1], t[2]), TRUE, v[1], v[2], 0, FALSE) :
        t \in {<<"enum E", TRUE>>, <<"const enum U", FALSE>>},
        v \in {<<(0 - 3), 5>>, <<1, 1>>}}

Variables ==
    {IndexSymbol(QualifiedType("int", TRUE), FALSE, 0, 0, a, e) :
        a \in {0, 16}, e \in BOOLEAN}

SymbolNames == {"A", "x"}

SymbolIndexes == [SymbolNames -> Enumerators \cup Variables \cup {NoSymbol}]

\* What the relocation callback of the program does to an address it is
\* given: it fails, or it adds the load offset.
Relocations == {[err |-> "NULL", offset |-> 0], [err |-> "NULL", offset |-> 32],
                [err |-> "LOOKUP", offset |-> 0], [err |-> "FAULT", offset |-> 0]}

\* drgn_symbol_index_find(prog->sindex, name, filename, flags, &sym): the
\* symbol under the name, its address relocated by the program's callback,
\* which may read target memory; an enumerator has no address to relocate.
drgn_symbol_index_find(sindex, relocation, name) ==
    LET found == sindex[name] IN
    IF found = NoSymbol THEN
        [err |-> "LOOKUP", sym |-> NoSymbol, relocated |-> FALSE]
    ELSE IF found.is_enumerator THEN
        [err |-> "NULL", sym |-> found, relocated |-> FALSE]
    ELSE IF relocation.err # "NULL" THEN
        [err |-> relocation.err, sym |-> NoSymbol, relocated |-> TRUE]
    ELSE
        [err |-> "NULL",
         sym |-> [found EXCEPT !.address = found.address + relocation.offset],
         relocated |-> TRUE]

\* drgn_object_init(obj, prog)
Object(pr) ==
    [prog |-> pr, kind |-> "none", qualified_type |-> QualifiedType("void", FALSE),
     value |-> 0, address |-> 0, is_reference |-> FALSE,
     little_endian |-> FALSE]

\* drgn_object_set_signed(ret, qualified_type, svalue, 0)
drgn_object_set_signed(ret, qualified_type, svalue) ==
    [ret EXCEPT !.kind = "signed", !.qualified_type = qualified_type,
                !.value = svalue, !.is_reference = FALSE, !.address = 0]

\* drgn_object_set_unsigned(ret, qualified_type, uvalue, 0)
drgn_object_set_unsigned(ret, qualified_type, uvalue) ==
    [ret EXCEPT !.kind = "unsigned", !.qualified_type = qualified_type,
                !.value = uvalue, !.is_reference = FALSE, !.address = 0]

\* drgn_object_set_reference(ret, qualified_type, address, 0, 0, little_endian)
drgn_object_set_reference(ret, qualified_type, address, little_endian) ==
    [ret EXCEPT !.kind = "reference", !.qualified_type = qualified_type,
                !.value = 0, !.is_reference = TRUE, !.address = address,
                !.little_endian = little_endian]

\* A bug: every enumerator is set from uvalue.
enumerator_object_unsigned(ret, sym) ==
    drgn_object_set_unsigned(ret, sym.qualified_type, sym.uvalue)

\* if (drgn_enum_type_is_signed(sym.qualified_type.type)) ... else ...
enumerator_object(ret, sym) ==
    IF sym.qualified_type.is_signed
    THEN drgn_object_set_signed(ret, sym.qualified_type, sym.svalue)
    ELSE drgn_object_set_unsigned(ret, sym.qualified_type, sym.uvalue)

\* drgn_program_find_object(prog, name, filename, flags, ret): the error
\* returned, *ret afterwards and whether the symbol index was asked.
drgn_program_find_object(pr, name, ret) ==
    IF ret.prog # pr.name THEN
        [err |-> "INVALID_ARGUMENT", ret |-> ret, queried |-> FALSE,
         relocated |-> FALSE]
    ELSE
        LET r == drgn_symbol_index_find(pr.sindex, pr.relocation, name) IN
        IF r.err # "NULL" THEN
            [err |-> r.err, ret |-> ret, queried |-> TRUE,
             relocated |-> r.relocated]
        ELSE
            [err |-> "NULL",
             ret |-> IF r.sym.is_enumerator THEN enumerator_object(ret, r.sym)
                     ELSE drgn_object_set_reference(ret, r.sym.qualified_type,
                                                    r.sym.address,
                                                    r.sym.little_endian),
             queried |-> TRUE, relocated |-> r.relocated]

NoFind ==
    [name |-> "", given |-> Object("none"), err |-> "NULL",
     ret |-> Object("none"), queried |-> FALSE, relocated |-> FALSE]

ObjectInit ==
    /\ MapIdle /\ BootIdle
    /\ vm = Idle /\ nt = Idle /\ rl = Idle
    /\ cs = Idle /\ kf = Idle /\ cu = Idle /\ ml = Idle
    /\ \E sindex \in SymbolIndexes, relocation \in Relocations :
        fo = [status |-> "live",
              prog |-> [name |-> "prog", sindex |-> sindex,
                        relocation |-> relocation],
              calls |-> 0, last |-> NoFind]

\* One call, on an object of this program or of another one, fresh or as
\* the previous call left it.
FindObject ==
    /\ fo.status = "live"
    /\ fo.calls < MaxCalls
    /\ \E name \in SymbolNames,
          given \in {Object("prog"), Object("other"), fo.last.ret} :
        LET r == drgn_program_find_object(fo.prog, name, given) IN
        /\ given.prog # "none"
        /\ fo' = [fo EXCEPT !.calls = fo.calls + 1,
                            !.last = [name |-> name, given |-> given,
                                      err |-> r.err, ret |-> r.ret,
                                      queried |-> r.queried,
                                      relocated |-> r.relocated]]
    /\ UNCHANGED <<map_vars, boot_vars, vm, nt, rl, cs, kf, cu, ml>>

ObjectNext == FindObject

SpecObject == ObjectInit /\ [][ObjectNext]_vars

-----------------------------------------------------------------------------
(* The cleanup stack on its own: add, remove, deinit *)

\* calls of drgn_program_add_cleanup and drgn_program_remove_cleanup
MaxOps == 4

\* An entry of the list is a callback with its argument; the list functions
\* above take it where they say cb.
Cleanup(cb, arg) == [cb |-> cb, arg |-> arg]

Cleanups == {Cleanup("f", "p"), Cleanup("f", "q"), Cleanup("g", "p")}

NoOp == [op |-> "none", e |-> Cleanup("", ""), ok |-> TRUE, pre |-> <<>>]

\* drgn_program_init: prog->cleanup = NULL
CleanupInit ==
    /\ MapIdle /\ BootIdle
    /\ vm = Idle /\ nt = Idle /\ rl = Idle
    /\ cs = Idle /\ kf = Idle /\ fo = Idle /\ ml = Idle
    /\ cu = [status |-> "live", cleanup |-> <<>>, ops |-> 0, last |-> NoOp,
             history |-> <<>>, called |-> <<>>, freed |-> 0]

\* drgn_program_add_cleanup(prog, cb, arg)
CleanupAdd ==
    /\ cu.status = "live"
    /\ cu.ops < MaxOps
    /\ \E e \in Cleanups, malloc_ok \in BOOLEAN :
        cu' = [cu EXCEPT
                 !.ops = cu.ops + 1,
                 !.cleanup = IF malloc_ok
                             THEN drgn_program_add_cleanup(cu.cleanup, e)
                             ELSE cu.cleanup,
                 !.history = Append(cu.history,
                                    [op |-> "add", e |-> e, ok |-> malloc_ok]),
                 !.last = [op |-> "add", e |-> e, ok |-> malloc_ok,
                           pre |-> cu.cleanup]]
    /\ UNCHANGED <<map_vars, boot_vars, vm, nt, rl, cs, kf, fo, ml>>

\* drgn_program_remove_cleanup(prog, cb, arg)
CleanupRemove ==
    /\ cu.status = "live"
    /\ cu.ops < MaxOps
    /\ \E e \in Cleanups :
        LET r == drgn_program_remove_cleanup(cu.cleanup, e) IN
        cu' = [cu EXCEPT
                 !.ops = cu.ops + 1,
                 !.cleanup = r.cleanup,
                 !.freed = IF r.found THEN cu.freed + 1 ELSE cu.freed,
                 !.history = Append(cu.history,
                                    [op |-> "remove", e |-> e, ok |-> r.found]),
                 !.last = [op |-> "remove", e |-> e, ok |-> r.found,
                           pre |-> cu.cleanup]]
    /\ UNCHANGED <<map_vars, boot_vars, vm, nt, rl, cs, kf, fo, ml>>

\* drgn_program_deinit up to cleanup = prog->cleanup
CleanupDeinit ==
    /\ cu.status = "live"
    /\ cu' = [cu EXCEPT !.status = IF cu.cleanup = <<>> THEN "done"
                                   ELSE "deinit",
                        !.last = [op |-> "deinit", e |-> Cleanup("", ""),
                                  ok |-> TRUE, pre |-> cu.cleanup]]
    /\ UNCHANGED <<map_vars, boot_vars, vm, nt, rl, cs, kf, fo, ml>>

\* One iteration of while (cleanup): cleanup->cb(cleanup->arg);
\* free(cleanup); cleanup = next;
CleanupRun ==
    /\ cu.status = "deinit"
    /\ cu' = [cu EXCEPT !.called = Append(cu.called, Head(cu.cleanup)),
                        !.freed = cu.freed + 1,
                        !.cleanup = Tail(cu.cleanup),
                        !.status = IF Tail(cu.cleanup) = <<>> THEN "done"
                                   ELSE "deinit"]
    /\ UNCHANGED <<map_vars, boot_vars, vm, nt, rl, cs, kf, fo, ml>>

CleanupNext == CleanupAdd \/ CleanupRemove \/ CleanupDeinit \/ CleanupRun

SpecCleanup == CleanupInit /\ [][CleanupNext]_vars

-----------------------------------------------------------------------------
(* find_module over the kernel's list of modules *)

\* struct module objects in target memory
MaxModules == 3

\* Addresses of list nodes: the list head `modules` and the list member of
\* each struct module.
ListHead == 0
ListNodes == 0..MaxModules

LoadedNames == {"a", "b"}

\* Target memory: the next pointer of every node, and the name member of
\* the struct module around every node but the list head, which is in no
\* module.
ModuleMemories ==
    [next : [ListNodes -> ListNodes],
     name : [ListNodes \ {ListHead} -> LoadedNames]]

\* A bug: the test of strcmp is inverted.
strcmp_eq_inverted(name, module_name) == name # module_name

\* strcmp(name, module_name) == 0
strcmp_eq(name, module_name) == name = module_name

ModulesInit ==
    /\ MapIdle /\ BootIdle
    /\ vm = Idle /\ nt = Idle /\ rl = Idle
    /\ cs = Idle /\ kf = Idle /\ fo = Idle /\ cu = Idle
    /\ \E memory \in ModuleMemories, module_name \in LoadedNames :
        ml = [status |-> "called", memory |-> memory,
              module_name |-> module_name, head |-> ListHead,
              node |-> ListHead, mod |-> ListHead, inspected |-> FALSE,
              err |-> "NULL", message |-> ""]

\* out: drgn_object_deinit(&mod_name); drgn_object_deinit(&node); return err;
ModulesReturn(state, err, message) ==
    [state EXCEPT !.status = "returned", !.err = err, !.message = message]

\* From drgn_program_find_type(.., "struct module", ..) to
\* drgn_object_read_unsigned(&node, &head): node is &modules.
ModulesHead ==
    /\ ml.status = "called"
    /\ \E fault \in {"NULL", "LOOKUP", "FAULT"} :
        ml' = IF fault # "NULL" THEN ModulesReturn(ml, fault, "")
              ELSE [ml EXCEPT !.status = "loop", !.node = ListHead,
                              !.head = ListHead]
    /\ UNCHANGED <<map_vars, boot_vars, vm, nt, rl, cs, kf, fo, cu>>

\* One iteration of for (;;): node = node->next, the test against head,
\* container_of, the name and its comparison.
ModulesStep ==
    /\ ml.status = "loop"
    /\ \E fault \in {"none", "next", "name"} :
        LET addr == ml.memory.next[ml.node]
            name == ml.memory.name[addr]
            at == [ml EXCEPT !.node = addr]
            seen == [at EXCEPT !.mod = addr, !.inspected = TRUE]
        IN
        ml' = IF fault = "next" THEN ModulesReturn(ml, "FAULT", "")
              ELSE IF addr = ml.head
              THEN ModulesReturn(at, "LOOKUP", "%s is not loaded")
              ELSE IF fault = "name" THEN ModulesReturn(seen, "FAULT", "")
              ELSE IF strcmp_eq(name, ml.module_name)
              THEN ModulesReturn(seen, "NULL", "")
              ELSE seen
    /\ UNCHANGED <<map_vars, boot_vars, vm, nt, rl, cs, kf, fo, cu>>

ModulesNext == ModulesHead \/ ModulesStep

\* find_module is straight-line code and a loop: a call that has not
\* returned takes its next step.
SpecModules ==
    ModulesInit /\ [][ModulesNext]_vars
    /\ WF_vars(ModulesHead) /\ WF_vars(ModulesStep)

-----------------------------------------------------------------------------
(* Properties of the bootstraps and of destruction, under Spec *)

Range(seq) == {seq[i] : i \in 1 .. Len(seq)}

\* How many times event e is in the log.
Count(e) == Cardinality({i \in 1 .. Len(log) : log[i] = e})

\* The events of one kind, in log order.
EventsOf(ev) == SelectSeq(log, LAMBDA e : e.ev = ev)

\* The first k registrations, last one first.
ReverseRegistration(k) == [i \in 1 .. k |-> Registration[k + 1 - i]]

\* The session is wired: drgn_program_init has run, the relocation hook is
\* set and the cleanups of the bootstrap are registered.
Wired ==
    /\ prog.initialized
    /\ prog.relocation_hook # "unset"
    /\ Len(prog.cleanup) >= 4

\* C1 (as claimed): a core-dump bootstrap in which a step failed returns a
\* non-null error and hands no session to the caller, and a session is handed
\* to the caller only when it is wired.
C1_AllOrNothing ==
    entry = "core" /\ pc \in {"done", "live"} =>
        /\ obs.failed # "none" => out.err # "NULL" /\ out.ret = "none"
        /\ out.ret = "prog" => out.err = "NULL" /\ Wired

\* What a bootstrap has to give back when it fails.
Owned == acq \ {"prog"}

\* C2 (as claimed): after a failed bootstrap every resource acquired so far
\* has been released exactly once.
C2_ReleasedExactlyOnce ==
    pc = "done" /\ obs.failed # "none" =>
        \A r \in Owned : Count(Release(r)) = 1

\* C3 (as claimed): when registration k fails, the callbacks registered at
\* steps 1..k-1 each run exactly once, in reverse registration order, and no
\* other callback runs.
C3_CallbacksRunInReverse ==
    pc = "done" /\ obs.registration_failed > 0 =>
        EventsOf("run") =
            [i \in 1 .. obs.registration_failed - 1 |->
                Run(ReverseRegistration(obs.registration_failed - 1)[i])]

\* C3 (amended): when registration k fails no cleanup callback runs; the
\* entries registered at steps 1..k-1 are each unregistered exactly once, in
\* reverse registration order, the list is left empty, and the resources
\* those entries guard are released directly, each exactly once.
C3_EntriesRemovedInReverse ==
    pc = "done" /\ obs.registration_failed > 0 =>
        LET k == obs.registration_failed IN
        /\ EventsOf("run") = <<>>
        /\ EventsOf("remove") =
               [i \in 1 .. k - 1 |-> Remove(ReverseRegistration(k - 1)[i])]
        /\ prog.cleanup = <<>>
        /\ \A i \in 1 .. k - 1 :
               Count(Release(CleanupResource(Registration[i]))) = 1

C3_Witness ==
    /\ pc = "done"
    /\ obs.registration_failed = 5
    /\ Len(EventsOf("remove")) = 4

\* Where in the log event e is.
Pos(e) == CHOOSE i \in 1 .. Len(log) : log[i] = e

SubObjects == {"sindex", "tindex", "reader"}

\* Destruction ran every registered cleanup once, last registered first.
EveryCleanupRanInReverse ==
    /\ Len(EventsOf("remove")) = 0
    /\ EventsOf("run") =
           [i \in 1 .. loc.registered |->
               Run(ReverseRegistration(loc.registered)[i])]

\* C4 (as claimed): destroying a session runs every registered cleanup once
\* in reverse registration order and releases the symbol index, the type
\* index and the memory reader only after all of them have run.
C4_CleanupsThenSubObjects ==
    pc = "destroyed" =>
        /\ EveryCleanupRanInReverse
        /\ \A r \in SubObjects : Count(Release(r)) = 1
        /\ \A r \in SubObjects : \A i \in 1 .. Len(log) :
               log[i].ev = "run" => i < Pos(Release(r))

\* C4 (amended): destroying a session first releases the symbol index, the
\* type index and the memory reader, in that order, and then runs every
\* registered cleanup exactly once in reverse registration order.
C4_SubObjectsThenCleanups ==
    pc = "destroyed" =>
        /\ EveryCleanupRanInReverse
        /\ \A r \in SubObjects : Count(Release(r)) = 1
        /\ Pos(Release("sindex")) < Pos(Release("tindex"))
        /\ Pos(Release("tindex")) < Pos(Release("reader"))
        /\ \A i \in 1 .. Len(log) :
               log[i].ev = "run" => Pos(Release("reader")) < i

C4_Witness ==
    /\ pc = "destroyed"
    /\ Len(EventsOf("run")) = 5

\* C5 (as claimed): the table handed to user-space discovery of a core dump
\* is the table parsed from its NT_FILE notes.
C5_NoteTableOffered ==
    entry = "core" /\ obs.discovery = "userspace" => obs.offered = obs.nt_table

\* The classification is over once the branch after it has been taken.
Classified ==
    /\ entry = "core"
    /\ obs.note_vmcoreinfo # "unset"
    /\ pc # "vmcoreinfo"
    /\ obs.failed # "fstatfs"

\* The note pass saw a VMCOREINFO note, or an NT_TASKSTRUCT note in a file
\* on procfs.
KernelTarget ==
    \/ obs.note_vmcoreinfo = "seen"
    \/ loc.have_nt_taskstruct /\ dump.f_type = PROC_SUPER_MAGIC

UserspaceTarget == ~KernelTarget /\ loc.have_nt_file

NonZeroPhysAddr ==
    \E k \in 1 .. Len(dump.phdrs) :
        dump.phdrs[k].p_type = "PT_LOAD" /\ dump.phdrs[k].p_paddr # 0

\* The decision has been taken and has not failed for want of any note.
PastVmcoreinfo ==
    Classified /\ obs.failed # "no_note"

\* C10: at most one vmcoreinfo source is ever consulted: the note when the
\* note pass saw one, else for a kernel target /sys/kernel/vmcoreinfo when a
\* PT_LOAD header has a non-zero p_paddr, else the fallback. When the source
\* consulted fails, the bootstrap fails and no other source is consulted.
C10_OneVmcoreinfoSource ==
    entry = "core" =>
        LET sources == Range(obs.consulted) IN
        /\ Cardinality(sources) <= 1
        /\ obs.note_vmcoreinfo = "seen" => sources = {"note"}
        /\ PastVmcoreinfo /\ KernelTarget /\ obs.note_vmcoreinfo = "absent" =>
               sources = {IF NonZeroPhysAddr THEN "sysfs" ELSE "fallback"}
        /\ PastVmcoreinfo /\ ~KernelTarget => sources = {}
        /\ obs.source_failed =>
               pc = "done" /\ out.err # "NULL" /\ out.ret = "none"

\* /sys/kernel/vmcoreinfo was consulted and failed.
C10_Witness ==
    /\ entry = "core"
    /\ obs.consulted = <<"sysfs">>
    /\ obs.source_failed
    /\ pc = "done"

-----------------------------------------------------------------------------
(* Properties of the mapping table, under SpecMap *)

\* The file paths a table names.
PathsOf(mappings) == {mappings[i].path.name : i \in 1 .. Len(mappings)}

\* Entry b continues entry a: same path, b starts where a ends, in memory
\* and in the file.
Continues(a, b) ==
    /\ a.path.name = b.path.name
    /\ a.end = b.start
    /\ a.file_offset + (a.end - a.start) = b.file_offset

SameMapping(a, b) ==
    /\ a.path.name = b.path.name
    /\ a.start = b.start
    /\ a.end = b.end
    /\ a.file_offset = b.file_offset

\* The table t_pre with its last entry's end moved to `end`.
LastExtended(end) == [t_pre EXCEPT ![Len(t_pre)].end = end]

EntryFed == t_in # NoEntry

\* C6: after any sequence of entries fed by parse_nt_file or parse_proc_maps,
\* no two consecutive entries of the table are mergeable (same path, the second
\* continuing the first in memory and in the file).
C6_NoMergeablePair ==
    \A i \in 1 .. Len(t_mappings) - 1 :
        ~Continues(t_mappings[i], t_mappings[i + 1])

\* C7: an entry with start = end leaves the table as it was and stores to no
\* slot, whichever parser fed it and also when the table is empty.
C7_ZeroLengthDropped ==
    (EntryFed /\ t_in.start = t_in.end) =>
        (t_mappings = t_pre /\ t_written = {})

\* C8 as stated: a mapping identical to the last entry, or continuing it, is
\* merged: the table is the previous one with the last end extended, with as
\* many entries and the same paths, and the caller is told to reclaim the path
\* (stated for the steps on which no allocation failed).
C8_IdenticalOrContiguousMerged ==
    (/\ EntryFed
     /\ t_status = "run"
     /\ Len(t_pre) > 0
     /\ \/ SameMapping(t_pre[Len(t_pre)], t_in)
        \/ Continues(t_pre[Len(t_pre)], t_in)) =>
        (/\ t_mappings = LastExtended(t_in.end)
         /\ Len(t_mappings) = Len(t_pre)
         /\ PathsOf(t_mappings) = PathsOf(t_pre)
         /\ t_err = "STOP"
         /\ t_path_freed)

\* C8 as amended: a mapping of non-zero length that continues the last entry
\* is merged: the table is the previous one with the last end extended, with
\* as many entries and the same paths, and the caller is told to reclaim the
\* path.
C8_ContiguousMerged ==
    (/\ EntryFed
     /\ Len(t_pre) > 0
     /\ t_in.start < t_in.end
     /\ Continues(t_pre[Len(t_pre)], t_in)) =>
        (/\ t_mappings = LastExtended(t_in.end)
         /\ Len(t_mappings) = Len(t_pre)
         /\ PathsOf(t_mappings) = PathsOf(t_pre)
         /\ t_err = "STOP"
         /\ t_path_freed)

\* A merge happened: the last entry grew.
C8_Witness ==
    /\ EntryFed
    /\ Len(t_pre) > 0
    /\ t_in.start < t_in.end
    /\ Continues(t_pre[Len(t_pre)], t_in)
    /\ Len(t_mappings) = Len(t_pre)
    /\ t_mappings[Len(t_mappings)].end > t_pre[Len(t_pre)].end

\* C16 as stated: a mapping with start > end is rejected with the ELF_FORMAT
\* error kind and the table is left as it was.
C16_NegativeLengthElfFormat ==
    (EntryFed /\ t_in.start > t_in.end) =>
        (t_err = "ELF_FORMAT" /\ t_mappings = t_pre)

\* C16: a mapping with start > end is rejected with the OTHER error kind,
\* whichever parser fed it; it is neither appended to nor merged into the
\* table, no slot is stored to and the parser returns.
C16_NegativeLengthRejected ==
    (EntryFed /\ t_in.start > t_in.end) =>
        /\ t_err = "OTHER"
        /\ t_mappings = t_pre
        /\ t_written = {}
        /\ t_status = "returned"

C16_Witness ==
    /\ EntryFed /\ t_in.start > t_in.end
    /\ Len(t_pre) > 0
    /\ t_pre[Len(t_pre)].end = t_in.start
    /\ t_pre[Len(t_pre)].path.name = t_in.path.name
    /\ t_err = "OTHER"

-----------------------------------------------------------------------------
(* Properties of parse_nt_file, under SpecNt *)

NtWord == WordSize(nt.is_64_bit)

\* The two header words are inside the descriptor.
HeaderFits == Len(nt.desc) >= 2 * NtWord

\* The count word is a number of two bytes at most, and that number.
CountIsSmall == \A k \in 3 .. NtWord : nt.desc[k] = 0

CountField == nt.desc[1] + 256 * nt.desc[2]

\* The header and count entries of three words are inside the descriptor.
EntriesFit ==
    /\ HeaderFits
    /\ CountIsSmall
    /\ 2 * NtWord + CountField * 3 * NtWord <= Len(nt.desc)

\* The number of NUL-terminated strings after the entries.
PathStrings ==
    Cardinality({k \in 2 * NtWord + CountField * 3 * NtWord + 1 .. Len(nt.desc) :
                    nt.desc[k] = 0})

\* Header, entries and count path strings are all inside the descriptor.
AllFit == EntriesFit /\ PathStrings >= CountField

\* C15 as stated: no byte outside the descriptor is read, and a run over a
\* descriptor in which the header, the entries and the paths do not all fit
\* returns ELF_FORMAT.
C15_TruncationIsElfFormat ==
    /\ nt.hi <= Len(nt.desc)
    /\ (nt.status \in {"returned", "crashed"} /\ ~AllFit) =>
           (nt.status = "returned" /\ nt.ret = "ELF_FORMAT")

\* C15: no byte outside the descriptor is read. A run over a descriptor in
\* which the header or the entries do not fit returns ELF_FORMAT before any
\* entry is read. A run over a descriptor with fewer path strings than
\* entries never returns success: it returns ELF_FORMAT at the first entry
\* without a path, unless it ended at an earlier entry, with OTHER (start >
\* end), with ENOMEM, or in the store to slot -1 of an empty table that a
\* zero-length entry leads to.
C15_ReadsInsideDescriptor ==
    /\ nt.hi <= Len(nt.desc)
    /\ (nt.status = "returned" /\ ~EntriesFit) =>
           (nt.ret = "ELF_FORMAT" /\ nt.i = 0)
    /\ (nt.status = "returned" /\ EntriesFit /\ ~AllFit) =>
           \/ nt.ret = "ELF_FORMAT" /\ nt.i = PathStrings + 1
           \/ nt.ret \in {"OTHER", "ENOMEM"} /\ nt.i <= PathStrings
    /\ nt.status = "crashed" =>
           (nt.mappings = <<>> /\ nt.i <= PathStrings)

C15_Witness ==
    /\ nt.status = "returned" /\ nt.ret = "ELF_FORMAT"
    /\ EntriesFit /\ ~AllFit
    /\ nt.i = 2 /\ Len(nt.mappings) = 1
    /\ nt.hi = Len(nt.desc)

-----------------------------------------------------------------------------
(* Properties of the relocation hooks, under SpecReloc *)

KernelCall == rl.last.hook = "kernel"

UserspaceCall == rl.last.hook = "userspace"

\* The least element of a non-empty set of indexes.
Least(S) == CHOOSE i \in S : \A j \in S : i <= j

\* The PT_LOAD headers of the symbol's file that hold the address, and the
\* file offset of the address in the first of them.
HoldingHeaders ==
    {i \in 1 .. Len(rl.elf.phdrs) :
        LET ph == rl.elf.phdrs[i] IN
        /\ ph.p_type = "PT_LOAD"
        /\ Le64(ph.p_vaddr, rl.last.sym.address)
        /\ Lt64(rl.last.sym.address, Add64(ph.p_vaddr, ph.p_memsz))}

OffsetInFile ==
    LET ph == rl.elf.phdrs[Least(HoldingHeaders)] IN
    Sub64(Add64(ph.p_offset, rl.last.sym.address), ph.p_vaddr)

\* The mappings of the symbol's file whose part of the file holds the offset.
HoldingMappings ==
    {k \in 1 .. Len(rl.prog.mappings) :
        LET m == rl.prog.mappings[k] IN
        /\ m.elf = rl.elf.id
        /\ Le64(m.file_offset, OffsetInFile)
        /\ Lt64(OffsetInFile, Add64(m.file_offset, Sub64(m.end, m.start)))}

\* C17: when the program headers of the symbol's file can be read, the
\* user-space hook sets the address to m.start + f - m.file_offset, for the
\* first PT_LOAD header p with p_vaddr <= address < p_vaddr + p_memsz, f =
\* p_offset + address - p_vaddr, and the first mapping m of that file with
\* m.file_offset <= f < m.file_offset + (m.end - m.start), all in 64-bit
\* arithmetic; it returns LOOKUP when there is no such p or no such m.
C17_UserspaceRelocation ==
    (UserspaceCall /\ rl.last.fault = NoFault) =>
        IF HoldingHeaders = {} \/ HoldingMappings = {} THEN
            rl.last.err = "LOOKUP"
        ELSE
            LET m == rl.prog.mappings[Least(HoldingMappings)] IN
            /\ rl.last.err = "NULL"
            /\ rl.last.out.address =
                   Sub64(Add64(m.start, OffsetInFile), m.file_offset)

C17_Witness ==
    /\ UserspaceCall /\ rl.last.err = "NULL"
    /\ Len(rl.prog.mappings) = 4
    /\ Least(HoldingMappings) = 3
    /\ Least(HoldingHeaders) = 2
    /\ rl.last.sym.address = <<2, 1, 0, 0>>
    /\ rl.last.out.address = <<7, 15, 0, 1, 0, 0>>

\* The hook went past gelf_getehdr and the ELF file is not an executable.
ModuleBranch ==
    /\ KernelCall
    /\ rl.last.fault.at # "gelf_getehdr"
    /\ rl.elf.e_type # "ET_EXEC"

\* The symbol of an executable gets kaslr_offset added modulo 2^64, and
\* nothing of the module is looked at.
VmlinuxRelocation ==
    (KernelCall /\ rl.last.fault.at # "gelf_getehdr"
        /\ rl.elf.e_type = "ET_EXEC") =>
        /\ rl.last.err = "NULL"
        /\ rl.last.out.address =
               Add64(rl.last.sym.address, rl.prog.vmcoreinfo.kaslr_offset)
        /\ rl.last.consulted = {}

\* C18 as stated: an executable is relocated by kaslr_offset, and only a
\* relocatable object takes the module branch.
C18_OnlyRelTakesModuleBranch ==
    /\ VmlinuxRelocation
    /\ (KernelCall /\ rl.last.consulted # {}) => rl.elf.e_type = "ET_REL"

\* C18: an executable is relocated by kaslr_offset modulo 2^64 without a look
\* at .modinfo, .symtab or the module list; every other object, relocatable
\* or not, takes the module branch.
C18_AllButExecTakeModuleBranch ==
    /\ VmlinuxRelocation
    /\ (ModuleBranch /\ rl.last.fault = NoFault) =>
           "sections" \in rl.last.consulted

C18_Witness ==
    /\ KernelCall /\ rl.elf.e_type = "ET_EXEC" /\ rl.last.err = "NULL"
    /\ rl.prog.vmcoreinfo.kaslr_offset = ULLONG_MAX
    /\ rl.last.sym.address = <<2, 0>>
    /\ rl.last.out.address = <<1, 15>>

\* One of the six things the module branch looks for is not there.
NotFound ==
    LET addr == rl.last.sym.address
        syms == rl.elf.symtab.syms
        S == {i \in 1 .. Len(syms) : syms[i].st_value = addr}
        M == {k \in 1 .. Len(rl.modules) : rl.modules[k].name = rl.elf.modinfo.name}
    IN
    \/ ~rl.elf.modinfo.present
    \/ ~rl.elf.symtab.present
    \/ rl.elf.modinfo.name = ""
    \/ S = {}
    \/ M = {}
    \/ \A a \in 1 .. Len(rl.modules[Least(M)].sect_attrs) :
           rl.modules[Least(M)].sect_attrs[a].name # syms[Least(S)].scnname

\* C19 as stated: whatever fails in the module branch, the error is LOOKUP.
C19_EveryFailureIsLookup ==
    (ModuleBranch /\ rl.last.err # "NULL") => rl.last.err = "LOOKUP"

\* C19: in the module branch, when every read succeeds the hook returns
\* LOOKUP exactly when .modinfo, .symtab, the name= entry, the symbol, the
\* module or the section is not found. A failed read of the ELF file returns
\* the error of the ELF parser, and a failed read of the memory of the target
\* returns the error of that read, unchanged.
C19_LookupWhenNotFound ==
    ModuleBranch =>
        /\ rl.last.fault = NoFault =>
               rl.last.err = IF NotFound THEN "LOOKUP" ELSE "NULL"
        /\ rl.last.fault.at = "elf_getshdrstrndx" => rl.last.err = "LIBELF"
        /\ rl.last.err \in {"NULL", "LOOKUP", "LIBELF", rl.last.fault.code}
        /\ rl.last.err = "LIBELF" => rl.last.fault.at \in ElfReads
        /\ rl.last.err = "FAULT" => rl.last.fault.at \in MemoryReads
        /\ (rl.last.err = "LOOKUP" /\ ~NotFound) =>
               rl.last.fault = Fault(rl.last.fault.at, "LOOKUP")
                   /\ rl.last.fault.at \in MemoryReads

C19_Witness ==
    /\ ModuleBranch /\ ~NotFound
    /\ rl.last.fault = Fault("find_section_address", "FAULT")
    /\ rl.last.err = "FAULT"

\* C20: a call of either hook leaves the program (mapping table, vmcoreinfo,
\* cleanup stack) and every field of the symbol but the address as they were,
\* and the address too when it returns an error; the address a successful
\* call gives is the one the first successful call for that symbol gave.
C20_OnlyAddressChanges ==
    rl.last # NoCall =>
        /\ rl.prog = rl.last.before
        /\ [rl.last.out EXCEPT !.address = rl.last.sym.address] = rl.last.sym
        /\ rl.last.err # "NULL" => rl.last.out = rl.last.sym
        /\ rl.last.err = "NULL" =>
               \E i \in 1 .. Len(rl.found) :
                   /\ rl.found[i].name = rl.last.sym.name
                   /\ rl.found[i].address = rl.last.out.address
        /\ \A i, j \in 1 .. Len(rl.found) :
               rl.found[i].name = rl.found[j].name => i = j

C20_Witness ==
    /\ ModuleBranch
    /\ rl.last.fault = Fault("find_module", "LOOKUP")
    /\ rl.last.err = "LOOKUP"
    /\ rl.last.out.address = rl.last.sym.address
    /\ \E i \in 1 .. Len(rl.found) :
           /\ rl.found[i].name = rl.last.sym.name
           /\ rl.found[i].address # rl.last.sym.address

\* The mappings of the symbol's own ELF file whose range [start, end) of
\* virtual addresses holds the address the hook gave.
OwnMappingsAround ==
    {k \in 1 .. Len(rl.prog.mappings) :
        LET m == rl.prog.mappings[k] IN
        /\ m.elf = rl.elf.id
        /\ Le64(m.start, rl.last.out.address)
        /\ Lt64(rl.last.out.address, m.end)}

\* The mappings of no ELF file (the file did not open) or of another ELF
\* file, whose part of the file holds the offset of the symbol.
ForeignMappingsAtOffset ==
    {k \in 1 .. Len(rl.prog.mappings) :
        LET m == rl.prog.mappings[k] IN
        /\ m.elf # rl.elf.id
        /\ Le64(m.file_offset, OffsetInFile)
        /\ Lt64(OffsetInFile, Add64(m.file_offset, Sub64(m.end, m.start)))}

\* C31: when the user-space hook succeeds, the address it gave lies in
\* [start, end) of a mapping whose ELF handle is the symbol's own ELF file,
\* and it is the address that mapping gives: a mapping with a null handle
\* or with the handle of another file is not the one used, even when its
\* part of the file holds the offset and it comes first in the table.
C31_RelocatedInsideOwnMapping ==
    (UserspaceCall /\ rl.last.err = "NULL") =>
        /\ OwnMappingsAround # {}
        /\ HoldingMappings # {}
        /\ Least(HoldingMappings) \in OwnMappingsAround
        /\ \A k \in ForeignMappingsAtOffset :
               LET m == rl.prog.mappings[k] IN
               rl.last.out.address #
                   Sub64(Add64(m.start, OffsetInFile), m.file_offset)

\* A mapping whose file did not open and a mapping of another file both hold
\* the offset and come before the mapping that is used.
C31_Witness ==
    /\ UserspaceCall /\ rl.last.err = "NULL"
    /\ \E k \in ForeignMappingsAtOffset : rl.prog.mappings[k].elf = "null"
    /\ \E k \in ForeignMappingsAtOffset : rl.prog.mappings[k].elf = "F"
    /\ \A k \in ForeignMappingsAtOffset : k < Least(HoldingMappings)
    /\ Least(HoldingMappings) \in OwnMappingsAround

-----------------------------------------------------------------------------
(* Properties of the vmcoreinfo sources, under SpecVmcore *)

\* The complete lines of a payload, without their newlines; what follows the
\* last newline is not a line.
LinesOf(text) ==
    LET nl == {i \in 1 .. Len(text) : text[i] = LF}
        pos(k) == CHOOSE i \in nl : Cardinality({j \in nl : j < i}) = k - 1
        start(k) == IF k = 1 THEN 1 ELSE pos(k - 1) + 1
    IN [k \in 1 .. Cardinality(nl) |-> SubSeq(text, start(k), pos(k) - 1)]

HasKey(l, key) == Len(l) >= Len(key) /\ SubSeq(l, 1, Len(key)) = key

ValueOf(l, key) == SubSeq(l, Len(key) + 1, Len(l))

RECURSIVE SelectLines(_, _)
SelectLines(ls, key) ==
    IF ls = <<>> THEN <<>>
    ELSE IF HasKey(Head(ls), key)
    THEN <<ValueOf(Head(ls), key)>> \o SelectLines(Tail(ls), key)
    ELSE SelectLines(Tail(ls), key)

\* The values of the lines of a payload that carry a key, in order.
ValuesOf(text, key) == SelectLines(LinesOf(text), key)

Last(s) == s[Len(s)]

\* A payload went through parse_vmcoreinfo, from the note of the dump or from
\* the note that sysfs names.
Parsed ==
    /\ vm.status \in {"done", "failed"}
    /\ \/ vm.source = "note"
       \/ vm.source = "sysfs" /\ vm.from.sysfs = GoodSysfsRead

MaxOffsetLine ==
    /\ Parsed
    /\ ValuesOf(vm.from.text, KeyKERNELOFFSET) = <<<<"F", "F", "F", "F", "F", "F", "F", "F", "F", "F", "F", "F", "F", "F", "F", "F">>>>

\* C12 as stated: a payload whose KERNELOFFSET line is
\* KERNELOFFSET=FFFFFFFFFFFFFFFF fails with OVERFLOW.
C12_MaxOffsetOverflows == MaxOffsetLine => vm.err = "OVERFLOW"

\* C12: KERNELOFFSET=FFFFFFFFFFFFFFFF is no overflow: such a payload never
\* fails with OVERFLOW, and when it is accepted kaslr_offset is 2^64 - 1; it
\* is a value of more than 64 bits, 10000000000000000, that fails with
\* OVERFLOW.
C12_MaxOffsetAccepted ==
    /\ MaxOffsetLine =>
        /\ vm.err # "OVERFLOW"
        /\ vm.status = "done" => vm.vmcoreinfo.kaslr_offset = ULLONG_MAX
    /\ (Parsed /\ ValuesOf(vm.from.text, KeyKERNELOFFSET) = <<<<"1", "0", "0", "0", "0", "0", "0", "0", "0", "0", "0", "0", "0", "0", "0", "0", "0">>>>
            /\ vm.err # "OTHER")
        => vm.err = "OVERFLOW"

C12_Witness ==
    /\ MaxOffsetLine /\ vm.status = "done" /\ vm.source = "note"
    /\ vm.vmcoreinfo.kaslr_offset = ULLONG_MAX

\* A non-empty run of hexadecimal digits.
HexRun(v) == v # <<>> /\ \A i \in 1 .. Len(v) : IsHex(v[i])

\* The number a run of hexadecimal digits writes.
HexNumber(v) == Strip([i \in 1 .. Len(v) |-> HexVal(v[i])])

\* The value text is blanks, then at most one sign, then at most one 0x or
\* 0X, then the run of digits `digits`.
SplitsAs(v, blanks, sign, prefix, digits) ==
    /\ v = blanks \o sign \o prefix \o digits
    /\ \A i \in 1 .. Len(blanks) : IsSpace(blanks[i])
    /\ sign \in {<<>>, <<"+">>, <<"-">>}
    /\ prefix \in {<<>>, <<"0", "x">>, <<"0", "X">>}
    /\ HexRun(digits)

Splits(v) ==
    {s \in [blanks : {SubSeq(v, 1, n) : n \in 0 .. Len(v)},
            sign : {<<>>, <<"+">>, <<"-">>},
            prefix : {<<>>, <<"0", "x">>, <<"0", "X">>},
            digits : {SubSeq(v, n, Len(v)) : n \in 1 .. Len(v)}] :
        SplitsAs(v, s.blanks, s.sign, s.prefix, s.digits)}

\* The value texts that strtoull in base 16 takes whole and that fit in 64
\* bits.
TakenWhole(v) ==
    \E s \in Splits(v) : Len(HexNumber(s.digits)) <= 16

NumberOf(v) ==
    LET s == CHOOSE s \in Splits(v) : TRUE IN
    IF s.sign = <<"-">> THEN Neg64(HexNumber(s.digits))
    ELSE HexNumber(s.digits)

\* The OSRELEASE lines of the payload stop no parse.
OsreleaseFine ==
    LET rel == ValuesOf(vm.from.text, KeyOSRELEASE) IN
    /\ rel # <<>> /\ Last(rel) # <<>>
    /\ \A i \in 1 .. Len(rel) : Len(rel[i]) < OsreleaseSize

\* C13 as stated: a payload is accepted only when the value of each of its
\* KERNELOFFSET lines is a non-empty run of hexadecimal digits, and
\* kaslr_offset is then the number the last one writes.
C13_OnlyHexRunsAccepted ==
    (Parsed /\ vm.status = "done") =>
        LET off == ValuesOf(vm.from.text, KeyKERNELOFFSET) IN
        /\ \A i \in 1 .. Len(off) : HexRun(off[i])
        /\ off # <<>> => vm.vmcoreinfo.kaslr_offset = HexNumber(Last(off))

\* C13: a KERNELOFFSET line is accepted exactly when strtoull in base 16
\* takes the whole value text and the number fits in 64 bits: blanks, a sign
\* and a 0x prefix may come before the digits; an empty value, characters
\* after the digits and a number of more than 64 bits are rejected with
\* OVERFLOW. kaslr_offset is the number of the last line, negated modulo 2^64
\* under a minus sign, and 0 without a line.
C13_WholeValueAccepted ==
    (Parsed /\ OsreleaseFine) =>
        LET off == ValuesOf(vm.from.text, KeyKERNELOFFSET) IN
        IF \A i \in 1 .. Len(off) : TakenWhole(off[i]) THEN
            /\ vm.status = "done"
            /\ vm.vmcoreinfo.kaslr_offset =
                   IF off = <<>> THEN <<>> ELSE NumberOf(Last(off))
        ELSE vm.status = "failed" /\ vm.err = "OVERFLOW"

C13_Witness ==
    /\ Parsed /\ OsreleaseFine /\ vm.status = "done"
    /\ ValuesOf(vm.from.text, KeyKERNELOFFSET) = <<<<"-", "1", "2">>>>
    /\ vm.vmcoreinfo.kaslr_offset =
           <<15, 15, 15, 15, 15, 15, 15, 15, 15, 15, 15, 15, 15, 15, 14, 14>>

\* printf("%llx")
RECURSIVE FormatDigits(_)
FormatDigits(ds) ==
    IF ds = <<>> THEN <<>>
    ELSE <<LowerHex[Head(ds) + 1]>> \o FormatDigits(Tail(ds))

FormatLlx(ds) == IF ds = <<>> THEN <<"0">> ELSE FormatDigits(ds)

\* The record written out as an OSRELEASE line and a KERNELOFFSET line.
Emit(rec) ==
    JoinLines(<<KeyOSRELEASE \o rec.osrelease,
                KeyKERNELOFFSET \o FormatLlx(rec.kaslr_offset)>>)

RECURSIVE Recognized(_)
Recognized(ls) ==
    IF ls = <<>> THEN <<>>
    ELSE IF HasKey(Head(ls), KeyOSRELEASE) \/ HasKey(Head(ls), KeyKERNELOFFSET)
    THEN <<Head(ls)>> \o Recognized(Tail(ls))
    ELSE Recognized(Tail(ls))

\* The OSRELEASE and KERNELOFFSET lines of a payload.
RecognizedSubset(text) == JoinLines(Recognized(LinesOf(text)))

\* C14 as stated: the record of an accepted payload, written out, is byte for
\* byte the OSRELEASE and KERNELOFFSET lines of the payload.
C14_RoundTripBytewise ==
    (Parsed /\ vm.status = "done") =>
        Emit(vm.vmcoreinfo) = RecognizedSubset(vm.from.text)

\* What %llx writes: lowercase digits, no leading zero but for 0 itself.
Canonical(v) ==
    /\ v # <<>> /\ Len(v) <= 16
    /\ \A i \in 1 .. Len(v) : \E d \in 1 .. 16 : LowerHex[d] = v[i]
    /\ v[1] = "0" => Len(v) = 1

\* One OSRELEASE line, then one KERNELOFFSET line in the form of %llx.
CanonicalPayload(text) ==
    LET ls == Recognized(LinesOf(text)) IN
    /\ Len(ls) = 2
    /\ HasKey(ls[1], KeyOSRELEASE)
    /\ HasKey(ls[2], KeyKERNELOFFSET)
    /\ Canonical(ValueOf(ls[2], KeyKERNELOFFSET))

\* C14: the record of an accepted payload, written out and parsed again, is
\* the same record; the text written out is byte for byte the OSRELEASE and
\* KERNELOFFSET lines of the payload when these are one OSRELEASE line
\* followed by one KERNELOFFSET line whose value is in the form of %llx.
C14_RoundTripRecord ==
    (Parsed /\ vm.status = "done") =>
        /\ parse_vmcoreinfo(Emit(vm.vmcoreinfo)) =
               [err |-> "NULL", ret |-> vm.vmcoreinfo]
        /\ CanonicalPayload(vm.from.text) =>
               Emit(vm.vmcoreinfo) = RecognizedSubset(vm.from.text)

C14_Witness ==
    /\ Parsed /\ vm.status = "done"
    /\ CanonicalPayload(vm.from.text)
    /\ vm.vmcoreinfo.kaslr_offset = <<1, 10, 0, 0, 0, 0, 0>>
    /\ Emit(vm.vmcoreinfo) = vm.from.text

-----------------------------------------------------------------------------
(* Properties of drgn_program_read_c_string, under SpecStr *)

\* offsets of the readable bytes
Readable(memory) == 0..(Len(memory) - 1)

\* offsets of the NUL bytes of the memory
NulOffsets(memory) == {i \in 0..(Len(memory) - 1) : memory[i + 1] = 0}

\* L, or one more than every offset of the model when no NUL follows
FirstNul(memory) ==
    IF NulOffsets(memory) = {} THEN MaxStr + 2
    ELSE CHOOSE i \in NulOffsets(memory) : \A j \in NulOffsets(memory) : i <= j

Min(a, b) == IF a <= b THEN a ELSE b

\* the offsets the call reads when nothing stops it
OffsetsToRead(memory, max_size) ==
    {i \in 0..(MaxStr + 1) : i < max_size /\ i <= FirstNul(memory)}

StrSucceeded == cs.status = "returned" /\ cs.err = "NULL"

\* strlen of the returned buffer
StrLen ==
    CHOOSE n \in 0..Len(cs.str) :
        /\ n < Len(cs.str) => cs.str[n + 1] = 0
        /\ \A i \in 1..n : cs.str[i] # 0

\* C21: a call that reads only readable bytes and whose allocations succeed
\* returns a buffer that holds a NUL, whose string has length
\* min(L, max_size) and is the bytes of memory before it; the call reads the
\* offsets below max_size up to the first NUL, in order, and nothing else;
\* every store is inside the buffer allocated at that time.
C21_ReadCString ==
    /\ cs.status # "idle" =>
        /\ \A k \in 1..Len(cs.writes) :
               cs.writes[k].index < cs.writes[k].capacity
        /\ \A k \in 1..Len(cs.reads) :
               /\ cs.reads[k] = k - 1
               /\ cs.reads[k] < cs.max_size
               /\ cs.reads[k] <= FirstNul(cs.memory)
        /\ cs.status # "crashed"
    /\ cs.status = "returned" =>
        /\ (OffsetsToRead(cs.memory, cs.max_size) \subseteq Readable(cs.memory)
            /\ ~cs.alloc_failed) => cs.err = "NULL"
        /\ cs.err = "ENOMEM" <=> cs.alloc_failed
        /\ cs.err = "FAULT" =>
               \E i \in OffsetsToRead(cs.memory, cs.max_size) :
                   i \notin Readable(cs.memory)
        /\ cs.ret_set <=> cs.err = "NULL"
    /\ StrSucceeded =>
        /\ \E i \in 1..Len(cs.str) : cs.str[i] = 0
        /\ StrLen = Min(FirstNul(cs.memory), cs.max_size)
        /\ \A i \in 1..StrLen : cs.str[i] = cs.memory[i]
        /\ Len(cs.str) = cs.size
        /\ cs.size = StrLen + 1
        /\ cs.size <= cs.capacity
        /\ {cs.reads[k] : k \in 1..Len(cs.reads)}
               = OffsetsToRead(cs.memory, cs.max_size)

\* A string cut at max_size with no NUL read, one byte past the buffer's
\* first doubling.
C21_Witness ==
    /\ StrSucceeded
    /\ cs.max_size = 2
    /\ FirstNul(cs.memory) > 2
    /\ cs.str = <<65, 65, 0>>
    /\ Len(cs.reads) = 2

-----------------------------------------------------------------------------
(* Properties of debug-file discovery, under SpecFiles *)

UserspaceReturned == kf.status = "returned" /\ kf.candidates = <<>>

KernelReturned == kf.status = "returned" /\ kf.candidates # <<>>

Swallowed == {"ENOENT", "NOT_ELF", "MISSING_DEBUG"}

\* the mappings whose file fails to open with an error that is not swallowed
FatalAt == {i \in 1..Len(kf.outcome) : kf.outcome[i] \notin Swallowed \cup {"ok"}}

FirstFatal == CHOOSE i \in FatalAt : \A j \in FatalAt : i <= j

OpenedAt == {i \in 1..Len(kf.outcome) : kf.outcome[i] = "ok"}

\* C22: open_userspace_files visits the mappings in order up to the first
\* one whose file fails with an error other than ENOENT, not ELF or missing
\* debug info, and returns that error; every visited mapping whose file
\* failed has a null elf and every other one its file's handle; with no such
\* error every mapping is visited and the result is MISSING_DEBUG exactly
\* when no file was opened, the empty table included.
C22_UserspaceDiscovery ==
    UserspaceReturned =>
        LET visited == IF FatalAt = {} THEN Len(kf.table) ELSE FirstFatal IN
        /\ Len(kf.elfs) = visited
        /\ \A i \in 1..visited :
               kf.elfs[i] = IF kf.outcome[i] = "ok"
                            THEN kf.table[i].path.name ELSE "NULL"
        /\ FatalAt # {} => kf.err = kf.outcome[FirstFatal]
        /\ FatalAt = {} =>
               /\ kf.err \in {"NULL", "MISSING_DEBUG"}
               /\ kf.err = "MISSING_DEBUG" <=> OpenedAt = {}
        /\ kf.err = "MISSING_DEBUG" => OpenedAt = {}

\* Two files that fail with swallowed errors around one that opens.
C22_Witness ==
    /\ UserspaceReturned
    /\ kf.outcome = <<"ENOENT", "ok", "NOT_ELF">>
    /\ kf.err = "NULL"
    /\ kf.elfs[1] = "NULL" /\ kf.elfs[2] # "NULL" /\ kf.elfs[3] = "NULL"

\* the candidates opened so far that were skipped
SkippedCandidates ==
    {k \in 1..Len(kf.candidates) :
        kf.candidates[k].open \in {"ENOENT", "MISSING_DEBUG"}}

PastVmlinux == kf.status \in {"roots", "walk"} \/ (KernelReturned /\ kf.roots # <<>>)

OpenedRoots == {k \in 1..Len(kf.roots) : kf.roots[k].fts_open = "ok"}

\* The entry last read is a regular file whose name ends in the suffix paired
\* with the root being walked: the one name of FtsNames that does.
ModuleFile(ent, root) ==
    /\ ent.st_mode = "S_IFREG"
    /\ ent.fts_name = <<"a">> \o module_extensions[root]

\* Every regular file with the paired suffix that fts_read returns is offered
\* to the DWARF index in the iteration that reads it, and nothing else is.
OfferedWhenRead ==
    kf.ent # NoFtsEntry =>
        (kf.opened <=> ModuleFile(kf.ent, kf.walked[Len(kf.walked)]))

\* C24 as stated: no root is opened after a root that was opened.
C24_FirstExistingRootOnly ==
    /\ \A k \in OpenedRoots : k = Len(kf.roots)
    /\ OfferedWhenRead

\* C24: the roots are tried in the order of module_paths, each with its
\* suffix; a root is tried only while no module file has been found, so a
\* root that does not exist, or that was walked to its end without a regular
\* file of its suffix, is followed by the next root, and no root is opened
\* once a walked root has offered a file; every regular file with the paired
\* suffix that the walk returns is offered when it is returned.
C24_RootsUntilModulesFound ==
    /\ Len(kf.roots) <= Len(module_paths)
    /\ \A k \in 1..Len(kf.roots) :
           /\ kf.roots[k].path = module_paths[k]
           /\ ~kf.roots[k].found_modules
           /\ k < Len(kf.roots) => kf.roots[k].fts_open \in {"ok", "ENOENT"}
    /\ kf.walked = [k \in 1..Len(kf.walked) |->
                      CHOOSE r \in OpenedRoots :
                          Cardinality({q \in OpenedRoots : q <= r}) = k]
    /\ kf.found_modules => Len(kf.roots) \in OpenedRoots
    /\ (KernelReturned /\ kf.err = "NULL" /\ ~kf.found_modules) =>
           Len(kf.roots) = Len(module_paths)
    /\ OfferedWhenRead

\* The first root exists and holds no module file; the second root is
\* walked and a file of it is offered.
C24_Witness ==
    /\ KernelReturned /\ kf.err = "NULL"
    /\ kf.walked = <<1, 2>>
    /\ kf.opened
    /\ kf.found_modules

\* n copies of a line
Repeat(line, n) == [k \in 1..n |-> line]

\* What a verbose call has written once it has met n modules without DWARF,
\* and what it adds when it returns NULL.
ModuleLines(n) ==
    (IF n >= 1
     THEN <<Line("missing debug information for modules:\n", <<>>)>>
     ELSE <<>>)
    \o Repeat(Line("%.*s\n", <<"a">>), Min(n, max_no_symbols))

SummaryLines(n) ==
    IF n > max_no_symbols THEN <<Line("... %zu more\n", <<n - max_no_symbols>>)>>
    ELSE <<>>

NoModulesLines ==
    IF kf.found_modules THEN <<>>
    ELSE <<Line("could not find kernel modules\n", <<>>)>>

-----------------------------------------------------------------------------
(* Properties of drgn_program_find_object, under SpecObject *)

FindCalled == fo.status = "live" /\ fo.calls >= 1

\* what the debugging information holds under the name asked for
Asked == fo.prog.sindex[fo.last.name]

\* C26: an object of another program gives INVALID_ARGUMENT and the symbol
\* index is not asked; otherwise an enumerator becomes a value object of the
\* enum's qualified type, signed with svalue when the enum is signed and
\* unsigned with uvalue when it is not, and the relocation callback, the one
\* reader of target memory, is not run; any other symbol becomes a reference
\* of its type at its relocated address; an error of the symbol index is
\* returned as it is and the object is left as it was given.
C26_FindObject ==
    FindCalled =>
        LET c == fo.last IN
        /\ c.given.prog # "prog" =>
               c.err = "INVALID_ARGUMENT" /\ ~c.queried /\ c.ret = c.given
        /\ c.given.prog = "prog" =>
               /\ c.queried
               /\ c.ret.prog = "prog"
               /\ Asked = NoSymbol => c.err = "LOOKUP" /\ c.ret = c.given
               /\ (Asked # NoSymbol /\ Asked.is_enumerator) =>
                      /\ c.err = "NULL"
                      /\ ~c.relocated
                      /\ ~c.ret.is_reference
                      /\ c.ret.qualified_type = Asked.qualified_type
                      /\ c.ret.kind = IF Asked.qualified_type.is_signed
                                      THEN "signed" ELSE "unsigned"
                      /\ c.ret.value = IF Asked.qualified_type.is_signed
                                       THEN Asked.svalue ELSE Asked.uvalue
               /\ (Asked # NoSymbol /\ ~Asked.is_enumerator) =>
                      /\ c.relocated
                      /\ c.err = fo.prog.relocation.err
                      /\ c.err # "NULL" => c.ret = c.given
                      /\ c.err = "NULL" =>
                             /\ c.ret.kind = "reference"
                             /\ c.ret.is_reference
                             /\ c.ret.qualified_type = Asked.qualified_type
                             /\ c.ret.address = Asked.address
                                                + fo.prog.relocation.offset
                             /\ c.ret.little_endian = Asked.little_endian

\* The enumerator A = -3 of the signed enum E.
C26_Witness ==
    /\ FindCalled
    /\ fo.last.err = "NULL"
    /\ fo.last.ret.kind = "signed"
    /\ fo.last.ret.value = 0 - 3
    /\ fo.last.ret.qualified_type = QualifiedType("enum E", TRUE)
    /\ ~fo.last.relocated

-----------------------------------------------------------------------------
(* Properties of the cleanup stack, under SpecCleanup *)

\* calls k+1..r of the history that are successful calls of op on entry e
Calls(op, e, k, r) ==
    Cardinality({j \in (k + 1)..r :
        cu.history[j].op = op /\ cu.history[j].e = e /\ cu.history[j].ok})

\* the successful adds
Added == {k \in 1..Len(cu.history) :
             cu.history[k].op = "add" /\ cu.history[k].ok}

\* The add at k has not been removed: a remove takes the most recently added
\* entry with its cb and arg that is still there, so the add at k is still
\* there when no stretch of calls after it holds more removes than adds of
\* its entry.
NotRemoved(k) ==
    \A r \in (k + 1)..Len(cu.history) :
        Calls("remove", cu.history[k].e, k, r)
            <= Calls("add", cu.history[k].e, k, r)

Remaining == {k \in Added : NotRemoved(k)}

\* the entries added and not removed, most recently added first
RemainingStack ==
    [i \in 1..Cardinality(Remaining) |->
        cu.history[CHOOSE k \in Remaining :
                       Cardinality({j \in Remaining : j >= k}) = i].e]

\* s without its element at position k
Without(s, k) == SubSeq(s, 1, k - 1) \o SubSeq(s, k + 1, Len(s))

\* C27: the list holds the entries added and not removed, most recently
\* added first; an add that succeeds puts its entry at the head and one that
\* fails changes nothing; remove(cb, arg) takes out the entry nearest to the
\* head with that cb and arg, leaves the others in their order and returns
\* true, or returns false and changes nothing when there is none;
\* drgn_program_deinit calls the remaining entries from the head on, each
\* once, and frees each entry once.
C27_CleanupStack ==
    cu.status # "idle" =>
        LET c == cu.last
            at == {k \in 1..Len(c.pre) : c.pre[k] = c.e}
        IN
        /\ cu.status = "live" => cu.cleanup = RemainingStack
        /\ (cu.status = "live" /\ c.op = "add") =>
               cu.cleanup = IF c.ok THEN <<c.e>> \o c.pre ELSE c.pre
        /\ (cu.status = "live" /\ c.op = "remove") =>
               /\ c.ok <=> at # {}
               /\ at = {} => cu.cleanup = c.pre
               /\ at # {} =>
                      \E k \in at :
                          /\ \A j \in at : k <= j
                          /\ cu.cleanup = Without(c.pre, k)
        /\ cu.status \in {"deinit", "done"} =>
               /\ cu.called \o cu.cleanup = RemainingStack
               /\ cu.freed = Cardinality(Added) - Len(cu.cleanup)
        /\ cu.status = "done" => cu.cleanup = <<>>

\* The same callback registered for two arguments and once more for the
\* first: removing it for the first argument takes the newest entry only,
\* and teardown calls the two that remain.
C27_Witness ==
    /\ cu.status = "done"
    /\ Len(cu.history) = 4
    /\ cu.history[4] = [op |-> "remove", e |-> Cleanup("f", "p"), ok |-> TRUE]
    /\ cu.called = <<Cleanup("f", "q"), Cleanup("f", "p")>>

-----------------------------------------------------------------------------
(* Properties of the note pass and of the classification, under Spec *)

\* the notes of the core file with the given name and type
NotesNamed(name, types) ==
    {k \in 1..Len(dump.phdrs) :
        /\ dump.phdrs[k].p_type = "PT_NOTE"
        /\ dump.phdrs[k].note.name = name
        /\ dump.phdrs[k].note.n_type \in types}

\* C28: have_nt_file and have_nt_taskstruct are set only by a note whose name
\* is exactly "CORE" and have_vmcoreinfo only by a note whose name is exactly
\* "VMCOREINFO"; notes of any other name, the empty name included, set none
\* of them.
C28_ExactNoteNames ==
    entry = "core" =>
        /\ loc.have_nt_file => NotesNamed(NameCORE, {"NT_FILE"}) # {}
        /\ loc.have_nt_taskstruct =>
               NotesNamed(NameCORE, {"NT_TASKSTRUCT"}) # {}
        /\ loc.have_vmcoreinfo => NotesNamed(NameVMCOREINFO, {"0"}) # {}

FstatfsFailed == entry = "core" /\ loc.fstatfs = "failed"

\* C30 as stated: a failed fstatfs does not end the bootstrap; it goes on to
\* the choice between the kernel and the user-space way.
C30_FstatfsFailureSwallowed ==
    FstatfsFailed => obs.failed # "fstatfs" /\ out.err # "OS"

\* C30: fstatfs is called exactly for a core file with an NT_TASKSTRUCT note
\* and no VMCOREINFO note; when it fails the bootstrap ends there with the
\* error made for it, is_proc_kcore is never set, no vmcoreinfo source is
\* consulted and no program is returned.
C30_FstatfsFailureAborts ==
    /\ (entry = "core" /\ loc.fstatfs # "not called") =>
           obs.note_vmcoreinfo = "absent" /\ loc.have_nt_taskstruct
    /\ (entry = "core" /\ obs.note_vmcoreinfo # "unset"
           /\ obs.failed # "fstatfs") =>
           (loc.fstatfs = "ok"
                <=> (obs.note_vmcoreinfo = "absent" /\ loc.have_nt_taskstruct))
    /\ FstatfsFailed =>
           /\ pc = "done"
           /\ out = [err |-> "OS", ret |-> "none"]
           /\ obs.failed = "fstatfs"
           /\ loc.is_proc_kcore = "unset"
           /\ obs.consulted = <<>>
           /\ obs.discovery = "none"

\* A CORE note of type NT_TASKSTRUCT, no VMCOREINFO note, a failing fstatfs.
C30_Witness ==
    /\ FstatfsFailed
    /\ pc = "done"
    /\ out.err = "OS"
    /\ NotesNamed(NameCORE, {"NT_TASKSTRUCT"}) # {}

-----------------------------------------------------------------------------
(* Properties of find_module, under SpecModules *)

\* the node reached from the list head by following next k times
RECURSIVE NodeAt(_)
NodeAt(k) == IF k = 0 THEN ListHead ELSE ml.memory.next[NodeAt(k - 1)]

\* The next chain from `modules` returns to it.
Circular == \E n \in 1..(MaxModules + 1) : NodeAt(n) = ListHead

\* the number of modules on a circular list
ListLength ==
    (CHOOSE n \in 1..(MaxModules + 1) :
        NodeAt(n) = ListHead /\ \A j \in 1..(n - 1) : NodeAt(j) # ListHead) - 1

\* places in the list of the modules with the name asked for
Matches == {k \in 1..ListLength : ml.memory.name[NodeAt(k)] = ml.module_name}

ModulesReturned == ml.status = "returned"

\* what a returned call on a circular list must have found
FoundFirstOrLookup ==
    (ModulesReturned /\ Circular /\ ml.err \in {"NULL", "LOOKUP"}
        /\ ~(ml.err = "LOOKUP" /\ ml.message = "")) =>
        /\ ml.err = "NULL" <=> Matches # {}
        /\ ml.err = "NULL" =>
               \E k \in Matches :
                   /\ \A j \in Matches : k <= j
                   /\ ml.mod = NodeAt(k)
        /\ ml.err = "LOOKUP" =>
               /\ ml.message = "%s is not loaded"
               /\ ml.node = ListHead
               /\ ListLength = 0 => ~ml.inspected

\* C29: on a list whose next chain returns to the head, find_module returns;
\* it returns the first module in list order with the name asked for, or
\* LOOKUP "<name> is not loaded" when the walk is back at the head and no
\* module has that name, or the error of a read that failed; on the empty
\* list it returns LOOKUP without having looked at any module.
C29_FindModuleTerminates ==
    /\ [](ml.status # "idle" => FoundFirstOrLookup)
    /\ (Circular ~> ModulesReturned)

\* The second of two modules has the name; the walk passes the first.
C29_Witness ==
    /\ ModulesReturned /\ Circular
    /\ ListLength = 2
    /\ Matches = {2}
    /\ ml.err = "NULL"
    /\ ml.mod = NodeAt(2)

=============================================================================
